---- MODULE Spec2Model ----
(***************************************************************************)
(* Monte Carlo systemic-risk model: the trial loop of monte_carlo_sim      *)
(* (backend/services/simulation_service.py, simulation.py), the process-   *)
(* global numpy generator it seeds and draws from, and                     *)
(* build_exposure_matrix.                                                  *)
(*                                                                         *)
(* Units.  Probabilities and uniform draws are in thousandths (a draw is   *)
(* an integer 0..999 standing for a float in [0,1)); lgd is in tenths;     *)
(* capital buffers and exposures are integers; the trial's capital and     *)
(* losses are kept in thousandths of a unit, so that the factors 0.6, 1.1  *)
(* and 1 + 0.1*round are exact.  Floating-point rounding is not modelled.  *)
(***************************************************************************)
EXTENDS Integers, Sequences, FiniteSets, TLC

\* ---------------------------------------------------------------- bounds
MaxBanks == 2      \* largest roster with freely chosen capital buffers
RingBanks == 12    \* size of the one large roster (a ring of exposures)
MaxSim == 2        \* largest n_sim
MaxRuns == 3       \* invocations of monte_carlo_sim in one behaviour

CapVals == {-1, 0, 2}        \* capital buffers offered to a roster
ExpVals == {0, 4}            \* exposure weights offered to a matrix
LgdVals == {3, 6}            \* lgd in tenths (BC_LGD, TRAD_LGD)
ShockVals == {0, 30, 1000}   \* shock_prob in thousandths (0, SHOCK_PROB, 1)
ThresholdVals == {1, 3}      \* systemic_threshold
AssetVals == {0, 1, 2}       \* interbank assets offered to the builder
LiabVals == {-1, 0, 2}       \* interbank liabilities offered to the builder
ReductionVals == {1, 5, 9}   \* bc_liability_reduction in tenths (0.1, 0.5, 0.9)

\* ------------------------------------------------------ program constants
TRAD_SEED == 42
BC_SEED == 44
BC_LIABILITY_REDUCTION == 5   \* 0.5, in tenths
BC_SHOCK_REDUCTION == 8       \* 0.8, in tenths
BC_CAPITAL_INCREASE == 11     \* 1.1, in tenths
BC_CONTAGION_REDUCTION == 6   \* 0.6, in tenths
TRAD_PANIC_FACTOR == 1        \* 0.1, in tenths
RoundCap == 10                \* "if round_num > 10: break"
ProgressEvery == 100          \* "sim % 100 == 0"
MinSim == 100                 \* "params['n_sim'] < 100"

\* the generator behind np.random: a full-period congruential generator
\* with outputs 0..999; the state after seed(s) and k draws is a function
\* of s and k only
RngMult == 41
RngInc == 153
RngMod == 1000
EntropySeed == 7              \* state of the generator before any seed()

Runs == 1..MaxRuns
ModelTypes == {"Traditional", "Blockchain"}

VARIABLES
  n_banks,            \* len(data)
  capital_buffer,     \* data['Capital Buffer']: [0..n_banks-1 -> Int]
  exposure_matrix,    \* [0..n_banks-1 -> [0..n_banks-1 -> Int]]
  lgd, shock_prob, n_sim, systemic_threshold,
  rng,                \* the process-global generator: [seed, pos]
  pc,                 \* per invocation: position in monte_carlo_sim
  model_type,         \* per invocation: the model_type argument
  sim,                \* per invocation: loop variable of "for sim in range"
  failed, capital, round_num, still_failing, failed_in_round,
  failures_record,    \* per invocation: the list being built / returned
  drawLog,            \* per invocation: generator state at each rand() call
  assets, liabilities, matrix, mpc,  \* build_exposure_matrix: inputs, result
  bc_liability_reduction,            \* r, in tenths
  bc_exposure,                       \* the matrix derived for Blockchain
  trad_results, bc_results,          \* the two record lists handed to the analysis
  trad_summary, bc_summary,          \* summarize_results of each
  improvements,                      \* calculate_improvements of the summaries
  statistical_analysis,              \* perform_statistical_analysis of the lists
  analysis_error,                    \* the exception an analysis function raised
  apc,                               \* position in the analysis
  progress_callback,                 \* the progress_callback argument
  callbackLog,                       \* per invocation: the callback's calls
  params, banks,                     \* simulation.parameters, Bank.query.all()
  jpc,                               \* position of the run_simulation task
  status, progress, error_message,   \* columns of the Simulation row
  result,                            \* the SimulationResult row, if any
  bankStore,                         \* the banks table: name -> row, or no row
  backend,                           \* the database behind SQLALCHEMY_DATABASE_URI
  request,                           \* the bank request last served
  response                           \* its HTTP status

inputVars == <<n_banks, capital_buffer, exposure_matrix, lgd, shock_prob,
               n_sim, systemic_threshold>>
trialVars == <<failed, capital, round_num, still_failing, failed_in_round>>
runVars == <<pc, model_type, sim, failures_record, drawLog>>
matrixVars == <<assets, liabilities, matrix, mpc, bc_liability_reduction, bc_exposure>>
analysisVars == <<trad_results, bc_results, trad_summary, bc_summary,
                  improvements, statistical_analysis, analysis_error, apc>>
jobRowVars == <<params, banks, jpc, status, error_message, result>>
jobVars == <<jobRowVars, progress>>
callbackVars == <<progress_callback, callbackLog>>
serviceVars == <<analysisVars, jobVars, callbackVars>>
apiVars == <<bankStore, backend, request, response>>
vars == <<inputVars, rng, runVars, trialVars, matrixVars, serviceVars, apiVars>>

\* ---------------------------------------------------------------- helpers
Banks(n) == 0..(n - 1)

\* the sum of f[0..n-1]
RECURSIVE SumTo(_, _)
SumTo(f, n) == IF n = 0 THEN 0 ELSE f[n - 1] + SumTo(f, n - 1)

\* np.where(mask)[0].tolist(): the indices where mask holds, ascending
RECURSIVE NpWhereFrom(_, _, _)
NpWhereFrom(mask, i, n) ==
  IF i >= n THEN <<>>
  ELSE (IF mask[i] THEN <<i>> ELSE <<>>) \o NpWhereFrom(mask, i + 1, n)

NpWhere(mask, n) == NpWhereFrom(mask, 0, n)

\* np.sum(mask) of a boolean array
NpSum(mask, n) == SumTo([i \in Banks(n) |-> IF mask[i] THEN 1 ELSE 0], n)

NpAny(mask, n) == \E i \in Banks(n) : mask[i]

SeqToSet(q) == {q[k] : k \in 1..Len(q)}

\* ------------------------------------------------------------- floats
\* A float64 value: a finite quotient num/den, or what numpy's division by
\* zero yields (inf, -inf, nan; a warning, no exception).
Zero == [kind |-> "num", num |-> 0, den |-> 1]

Divide(x, d) ==
  IF d # 0 THEN [kind |-> "num", num |-> x, den |-> d]
  ELSE IF x > 0 THEN [kind |-> "inf", num |-> 1, den |-> 0]
  ELSE IF x < 0 THEN [kind |-> "-inf", num |-> -1, den |-> 0]
  ELSE [kind |-> "nan", num |-> 0, den |-> 0]

NaN == [kind |-> "nan", num |-> 0, den |-> 0]
Inf(s) ==
  IF s > 0 THEN [kind |-> "inf", num |-> 1, den |-> 0]
  ELSE [kind |-> "-inf", num |-> -1, den |-> 0]

\* the finite value p/q (q # 0)
Num(p, q) == [kind |-> "num", num |-> p, den |-> q]

Sgn(k) == IF k > 0 THEN 1 ELSE IF k < 0 THEN -1 ELSE 0
Sign(x) == IF x.kind = "num" THEN Sgn(x.num) * Sgn(x.den) ELSE x.num

Abs(k) == IF k < 0 THEN -k ELSE k

RECURSIVE Gcd(_, _)
Gcd(a, b) == IF b = 0 THEN a ELSE Gcd(b, a % b)

\* p/q in lowest terms with a positive denominator (q # 0)
Reduced(p, q) ==
  LET g == Gcd(Abs(p), Abs(q))
  IN Num(Sgn(q) * (p \div g), Abs(q) \div g)

\* x * y on float64 values (nan absorbs; inf * 0 is nan)
Times(x, y) ==
  IF x.kind = "nan" \/ y.kind = "nan" THEN NaN
  ELSE IF x.kind = "num" /\ y.kind = "num"
       THEN LET a == Reduced(x.num, y.den)
                b == Reduced(y.num, x.den)
            IN Reduced(a.num * b.num, a.den * b.den)
  ELSE IF Sign(x) * Sign(y) = 0 THEN NaN
  ELSE Inf(Sign(x) * Sign(y))

Neg(x) ==
  IF x.kind = "num" THEN Num(-x.num, x.den)
  ELSE IF x.kind = "nan" THEN NaN ELSE Inf(-Sign(x))

Plus(x, y) ==
  IF x.kind = "nan" \/ y.kind = "nan" THEN NaN
  ELSE IF x.kind = "num" /\ y.kind = "num"
       THEN LET a == Reduced(x.num, x.den)
                b == Reduced(y.num, y.den)
                g == Gcd(a.den, b.den)
            IN Reduced(a.num * (b.den \div g) + b.num * (a.den \div g),
                       (a.den \div g) * b.den)
  ELSE IF x.kind = "num" THEN y
  ELSE IF y.kind = "num" \/ x.kind = y.kind THEN x
  ELSE NaN

Minus(x, y) == Plus(x, Neg(y))

\* x / y on float64 values: a zero divisor yields inf or nan, no exception
Over(x, y) ==
  IF x.kind = "nan" \/ y.kind = "nan" THEN NaN
  ELSE IF x.kind = "num" /\ y.kind = "num"
       THEN IF y.num # 0 THEN Times(x, Num(y.den, y.num))
            ELSE IF Sign(x) = 0 THEN NaN ELSE Inf(Sign(x))
  ELSE IF x.kind = "num" THEN Zero
  ELSE IF y.kind = "num" THEN Inf(Sign(x) * (IF Sign(y) < 0 THEN -1 ELSE 1))
  ELSE NaN

\* x > y and x < y (false when either is nan)
Greater(x, y) == Minus(x, y).kind # "nan" /\ Sign(Minus(x, y)) > 0
Less(x, y) == Greater(y, x)

\* ------------------------------------------------------------- generator
\* k steps of the generator as one map x -> (a * x + c) % RngMod, by halving k
RECURSIVE Jump(_)
Jump(k) ==
  IF k = 0 THEN [a |-> 1, c |-> 0]
  ELSE IF k % 2 = 1
  THEN CHOOSE r \in {[a |-> (RngMult * j.a) % RngMod,
                      c |-> (RngMult * j.c + RngInc) % RngMod] : j \in {Jump(k - 1)}} : TRUE
  ELSE CHOOSE r \in {[a |-> (h.a * h.a) % RngMod,
                      c |-> (h.a * h.c + h.c) % RngMod] : h \in {Jump(k \div 2)}} : TRUE

\* the state of the generator k steps after seed(seed)
RngState(seed, k) ==
  CHOOSE x \in {(j.a * (seed % RngMod) + j.c) % RngMod : j \in {Jump(k)}} : TRUE

\* the draw number pos (0-based) of the stream seeded with seed
Rand(seed, pos) == RngState(seed, pos + 1)

\* ------------------------------------------------------ regime parameters
RegimeSeed(mt) == IF mt = "Traditional" THEN TRAD_SEED ELSE BC_SEED

\* variant: the 0.8 reduction applied whatever the model type
EffectiveShockProb_BothRegimes(mt, sp) == sp * BC_SHOCK_REDUCTION

\* effective_shock_prob, in ten-thousandths (shock_prob * 0.8 for Blockchain)
EffectiveShockProb(mt, sp) ==
  IF mt = "Blockchain" THEN sp * BC_SHOCK_REDUCTION ELSE sp * 10

\* failed = np.random.rand(n_banks) < effective_shock_prob, the n draws
\* taken from the generator in state [seed, pos]
InitialShock(mt, sp, n, seed, pos) ==
  [i \in Banks(n) |-> Rand(seed, pos + i) * 10 < EffectiveShockProb(mt, sp)]

\* capital = data['Capital Buffer'].copy(), times 1.1 for Blockchain
InitialCapital(mt, buf, n) ==
  [i \in Banks(n) |->
     buf[i] * 100 * (IF mt = "Blockchain" THEN BC_CAPITAL_INCREASE ELSE 10)]

\* variant: the panic factor applied from the first round on
Losses_PanicFromFirst(mt, M, l, f, rn, n) ==
  LET contagion == IF mt = "Blockchain" THEN BC_CONTAGION_REDUCTION ELSE 10
      panic == IF mt = "Traditional" THEN 10 + rn * TRAD_PANIC_FACTOR ELSE 10
      hit(j) == SumTo([i \in Banks(n) |->
                          IF f[i] THEN M[i][j] * l * contagion ELSE 0], n)
  IN [j \in Banks(n) |-> hit(j) * panic]

\* the losses array of one pass of the while loop
Losses(mt, M, l, f, rn, n) ==
  LET contagion == IF mt = "Blockchain" THEN BC_CONTAGION_REDUCTION ELSE 10
      panic == IF mt = "Traditional" /\ rn > 1
               THEN 10 + rn * TRAD_PANIC_FACTOR ELSE 10
      hit(j) == SumTo([i \in Banks(n) |->
                          IF f[i] THEN M[i][j] * l * contagion ELSE 0], n)
  IN [j \in Banks(n) |-> hit(j) * panic]

\* variant: losses >= capital
NewFailed_AtOrAbove(losses, cap, f, n) ==
  [j \in Banks(n) |-> losses[j] >= cap[j] /\ ~f[j]]

\* new_failed = (losses > capital.values) & (~failed)
NewFailed(losses, cap, f, n) ==
  [j \in Banks(n) |-> losses[j] > cap[j] /\ ~f[j]]

\* variant: no safety check on the number of rounds
CapReached_Never(rn) == FALSE

\* "if round_num > 10: break", evaluated after round_num += 1
CapReached(rn) == rn > RoundCap

\* variant: the round's entry lists every failed bank
RoundUpdate_RecordsAllFailed(n, t, losses, new_failed) ==
  [failed |-> [j \in Banks(n) |-> t.failed[j] \/ new_failed[j]],
   capital |-> [j \in Banks(n) |-> t.capital[j] - losses[j]],
   round_num |-> t.round_num + 1,
   still_failing |-> NpAny(new_failed, n),
   failed_in_round |->
     IF NpAny(new_failed, n)
     THEN (t.round_num :> NpWhere([j \in Banks(n) |-> t.failed[j] \/ new_failed[j]], n))
            @@ t.failed_in_round
     ELSE t.failed_in_round]

\* variant: capital is not reduced by the losses
RoundUpdate_KeepsCapital(n, t, losses, new_failed) ==
  [failed |-> [j \in Banks(n) |-> t.failed[j] \/ new_failed[j]],
   capital |-> t.capital,
   round_num |-> t.round_num + 1,
   still_failing |-> NpAny(new_failed, n),
   failed_in_round |->
     IF NpAny(new_failed, n)
     THEN (t.round_num :> NpWhere(new_failed, n)) @@ t.failed_in_round
     ELSE t.failed_in_round]

\* the rest of a pass of the loop, given its losses and new_failed arrays:
\* failed_in_round, still_failing, failed, capital, round_num
RoundUpdate(n, t, losses, new_failed) ==
  [failed |-> [j \in Banks(n) |-> t.failed[j] \/ new_failed[j]],
   capital |-> [j \in Banks(n) |-> t.capital[j] - losses[j]],
   round_num |-> t.round_num + 1,
   still_failing |-> NpAny(new_failed, n),
   failed_in_round |->
     IF NpAny(new_failed, n)
     THEN (t.round_num :> NpWhere(new_failed, n)) @@ t.failed_in_round
     ELSE t.failed_in_round]

\* one pass of the body of "while still_failing" (the two arrays are bound
\* as values, each computed once)
RoundStep(mt, M, l, n, t) ==
  CHOOSE r \in
    UNION {{RoundUpdate(n, t, losses, new_failed) :
              new_failed \in {NewFailed(losses, t.capital, t.failed, n)}} :
           losses \in {Losses(mt, M, l, t.failed, t.round_num, n)}} : TRUE

\* variant: capital carried over from the trial before
TrialStart_KeepsCapital(mt, sp, buf, n, seed, pos) ==
  LET f == InitialShock(mt, sp, n, seed, pos)
      q == CHOOSE q \in Runs : pc[q] = "for"
  IN [failed |-> f,
      capital |-> IF sim[q] = 0 THEN InitialCapital(mt, buf, n) ELSE capital[q],
      round_num |-> 1,
      still_failing |-> TRUE,
      failed_in_round |-> (0 :> NpWhere(f, n))]

\* the state of a trial right after the initial shock
TrialStart(mt, sp, buf, n, seed, pos) ==
  LET f == InitialShock(mt, sp, n, seed, pos)
  IN [failed |-> f,
      capital |-> InitialCapital(mt, buf, n),
      round_num |-> 1,
      still_failing |-> TRUE,
      failed_in_round |-> (0 :> NpWhere(f, n))]

\* variant: n_failures > systemic_threshold
SystemicEvent_Strict(nf, thr) == nf > thr

\* systemic_event = n_failures >= systemic_threshold
SystemicEvent(nf, thr) == nf >= thr

\* variant: n_failures counted on the initial shock only
TrialRecord_CountsInitial(f, fir, thr, n) ==
  [n_failures |-> Len(fir[0]),
   systemic_event |-> SystemicEvent(Len(fir[0]), thr),
   failed_banks |-> NpWhere(f, n),
   failed_in_round |-> fir]

\* the tuple appended to failures_record
TrialRecord(f, fir, thr, n) ==
  [n_failures |-> NpSum(f, n),
   systemic_event |-> SystemicEvent(NpSum(f, n), thr),
   failed_banks |-> NpWhere(f, n),
   failed_in_round |-> fir]

\* the while loop run to its end from trial state t
RECURSIVE Cascade(_, _, _, _, _)
Cascade(mt, M, l, n, t) ==
  IF ~t.still_failing \/ CapReached(t.round_num) THEN t
  ELSE CHOOSE r \in {Cascade(mt, M, l, n, u) : u \in {RoundStep(mt, M, l, n, t)}} : TRUE

\* -------------------------------------------------------------- stream.py
\* The trial loop of run_monte_carlo_banking_simulation, which carries its
\* own literals (in tenths here) and ends its loop in the while condition.
StreamShockFactor == 8
StreamCapitalFactor == 11
StreamContagionFactor == 6
StreamPanicStep == 1
StreamMaxRounds == 10

\* banks_failed_initially, from the n draws of the generator at [seed, pos]
StreamInitialShock(mt, sp, n, seed, pos) ==
  [i \in Banks(n) |->
     Rand(seed, pos + i) * 10 < (IF mt = "Blockchain" THEN sp * StreamShockFactor ELSE sp * 10)]

\* bank_capital_remaining at the start of a trial
StreamInitialCapital(mt, buf, n) ==
  [i \in Banks(n) |->
     buf[i] * 100 * (IF mt = "Blockchain" THEN StreamCapitalFactor ELSE 10)]

\* losses_this_round
StreamLosses(mt, M, l, f, rn, n) ==
  LET caused(i, j) ==
        IF mt = "Blockchain" THEN M[i][j] * l * StreamContagionFactor ELSE M[i][j] * l * 10
      total(j) == SumTo([i \in Banks(n) |-> IF f[i] THEN caused(i, j) ELSE 0], n)
  IN [j \in Banks(n) |->
        IF mt = "Traditional" /\ rn > 1
        THEN total(j) * (10 + rn * StreamPanicStep) ELSE total(j) * 10]

\* variant: the loop stops one round earlier
StreamContinues_Below(spreading, rn) == spreading /\ rn < StreamMaxRounds

\* "while crisis_still_spreading and contagion_round_number <= 10"
StreamContinues(spreading, rn) == spreading /\ rn <= StreamMaxRounds

\* the body of the loop once its losses are known
StreamUpdate(n, t, losses) ==
  LET newly_failed == [j \in Banks(n) |-> losses[j] > t.capital[j] /\ ~t.failed[j]]
  IN [failed |-> [j \in Banks(n) |-> t.failed[j] \/ newly_failed[j]],
      capital |-> [j \in Banks(n) |-> t.capital[j] - losses[j]],
      round_num |-> t.round_num + 1,
      still_failing |-> NpAny(newly_failed, n)]

\* the while loop of a trial, from trial state t to its end
RECURSIVE StreamCascade(_, _, _, _, _)
StreamCascade(mt, M, l, n, t) ==
  IF ~StreamContinues(t.still_failing, t.round_num) THEN t
  ELSE CHOOSE r \in
         {StreamCascade(mt, M, l, n, u) :
            u \in {StreamUpdate(n, t, losses) :
                     losses \in {StreamLosses(mt, M, l, t.failed, t.round_num, n)}}} : TRUE

\* one trial on the draws at [seed, pos]: the failed banks, their number
\* and the value of contagion_round_number after the loop
StreamTrial(mt, M, l, sp, buf, n, seed, pos) ==
  CHOOSE r \in
    {[failed |-> t.failed, total_banks_failed |-> NpSum(t.failed, n),
      round_num |-> t.round_num] :
       t \in {StreamCascade(mt, M, l, n,
                 [failed |-> StreamInitialShock(mt, sp, n, seed, pos),
                  capital |-> StreamInitialCapital(mt, buf, n),
                  round_num |-> 1,
                  still_failing |-> TRUE])}} : TRUE

\* ------------------------------------------------------------------ Init
Uniform(n, e) == [i \in Banks(n) |-> [j \in Banks(n) |-> IF i = j THEN 0 ELSE e]]
Ring(n, e) ==
  [i \in Banks(n) |-> [j \in Banks(n) |-> IF j = (i + 1) % n /\ i # j THEN e ELSE 0]]

\* the rosters offered: every small roster, and rings of RingBanks banks
SmallRosters ==
  UNION {{[n |-> k, buf |-> b, M |-> m] :
            b \in [Banks(k) -> CapVals],
            m \in {Uniform(k, e) : e \in ExpVals} \cup {Ring(k, e) : e \in ExpVals}} :
         k \in 1..MaxBanks}

RingRosters ==
  {[n |-> RingBanks, buf |-> [i \in Banks(RingBanks) |-> c], M |-> Ring(RingBanks, e)] :
     c \in CapVals, e \in ExpVals \ {0}}


NoTrial ==
  [failed |-> <<>>, capital |-> <<>>, round_num |-> 0, still_failing |-> FALSE,
   failed_in_round |-> <<>>]

NoBank == [kind |-> "none"]
NoRequest == [op |-> "none", name |-> "none", data |-> <<>>]

InitNoBankRequests ==
  /\ bankStore = <<>>
  /\ backend = "none"
  /\ request = NoRequest
  /\ response = 0

InitRuns ==
  /\ rng = [seed |-> EntropySeed, pos |-> 0]
  /\ pc = [p \in Runs |-> "idle"]
  /\ model_type = [p \in Runs |-> "Traditional"]
  /\ sim = [p \in Runs |-> 0]
  /\ failed = [p \in Runs |-> NoTrial.failed]
  /\ capital = [p \in Runs |-> NoTrial.capital]
  /\ round_num = [p \in Runs |-> NoTrial.round_num]
  /\ still_failing = [p \in Runs |-> NoTrial.still_failing]
  /\ failed_in_round = [p \in Runs |-> NoTrial.failed_in_round]
  /\ failures_record = [p \in Runs |-> <<>>]
  /\ drawLog = [p \in Runs |-> <<>>]
  /\ callbackLog = [p \in Runs |-> <<>>]

InitNoMatrix ==
  /\ assets = <<>>
  /\ liabilities = <<>>
  /\ matrix = <<>>
  /\ mpc = "none"
  /\ bc_liability_reduction = BC_LIABILITY_REDUCTION
  /\ bc_exposure = <<>>

NoSummary == [kind |-> "none"]

InitNoAnalysis ==
  /\ trad_results = <<>>
  /\ bc_results = <<>>
  /\ trad_summary = NoSummary
  /\ bc_summary = NoSummary
  /\ improvements = NoSummary
  /\ statistical_analysis = NoSummary
  /\ analysis_error = "none"
  /\ apc = "none"

NoBanks == [n |-> 0, buf |-> <<>>, assets |-> <<>>, liabilities |-> <<>>]

InitNoJob ==
  /\ params = <<>>
  /\ banks = NoBanks
  /\ jpc = "none"
  /\ status = "none"
  /\ progress = Zero
  /\ error_message = "none"
  /\ result = NoSummary

\* the arguments of monte_carlo_sim, but for the callback
InitInputs ==
  /\ \E r \in SmallRosters \cup RingRosters :
       /\ n_banks = r.n
       /\ capital_buffer = r.buf
       /\ exposure_matrix = r.M
  /\ lgd \in LgdVals
  /\ shock_prob \in ShockVals
  /\ n_sim \in 1..MaxSim
  /\ systemic_threshold \in ThresholdVals
  /\ InitRuns
  /\ InitNoMatrix
  /\ InitNoAnalysis
  /\ InitNoJob
  /\ InitNoBankRequests

Init == InitInputs /\ progress_callback = "none"

\* --------------------------------------------------------------- actions
\* the callers run the Traditional simulation, then the Blockchain one
CallerModelType(p) == IF p % 2 = 1 THEN "Traditional" ELSE "Blockchain"

\* variant: no seed call at entry
SeedRng_NoReseed(mt, g) == g

\* np.random.seed(42) / np.random.seed(44) on the generator in state g
SeedRng(mt, g) == [seed |-> RegimeSeed(mt), pos |-> 0]

\* variant: the generator reseeded for every trial
AdvanceRng_Reseed(g, n) == [g EXCEPT !.pos = 0]

\* the generator after np.random.rand(n) has taken its n draws
AdvanceRng(g, n) == [g EXCEPT !.pos = @ + n]

\* entry of monte_carlo_sim up to the for loop: the empty record list and
\* the seeding of the global generator
Enter(p) ==
  /\ pc[p] = "idle"
  /\ model_type' = [model_type EXCEPT ![p] = CallerModelType(p)]
  /\ failures_record' = [failures_record EXCEPT ![p] = <<>>]
  /\ rng' = SeedRng(CallerModelType(p), rng)
  /\ sim' = [sim EXCEPT ![p] = 0]
  /\ pc' = [pc EXCEPT ![p] = "for"]
  /\ UNCHANGED <<apiVars, inputVars, drawLog, trialVars, matrixVars, serviceVars>>

\* a call made when every earlier invocation has returned
Call(p) ==
  /\ \A q \in Runs : q < p => pc[q] = "returned"
  /\ Enter(p)

\* a call of the callback returns, or raises
CallbackOutcomes(cb) == IF cb = "faulty" THEN {"returns", "raises"} ELSE {"returns"}

\* variant: the callback called before every trial
HeadOutcomes_EveryTrial(cb, k) ==
  IF cb # "none" THEN CallbackOutcomes(cb) ELSE {"no call"}

\* "if progress_callback and sim % 100 == 0" before trial k
HeadOutcomes(cb, k) ==
  IF cb # "none" /\ k % ProgressEvery = 0 THEN CallbackOutcomes(cb) ELSE {"no call"}

\* "if progress_callback" after the loop
FinalOutcomes(cb) == IF cb # "none" THEN CallbackOutcomes(cb) ELSE {"no call"}

\* the lambdas of run_simulation: 0.2 + p * 0.3 and 0.5 + p * 0.3
JobProgress(mt, v) ==
  Plus(IF mt = "Traditional" THEN Num(2, 10) ELSE Num(5, 10), Times(v, Num(3, 10)))

\* a call of the callback with progress value v and outcome o; the callback
\* of run_simulation writes simulation.progress (update_progress)
Callback(p, o, v) ==
  /\ callbackLog' =
       IF o = "no call" THEN callbackLog
       ELSE [callbackLog EXCEPT ![p] = Append(@, [value |-> v, outcome |-> o])]
  /\ progress' =
       IF o = "returns" /\ progress_callback = "update_progress"
       THEN JobProgress(model_type[p], v) ELSE progress

\* head of "for sim in range(n_sim)" with another trial to run: the progress
\* callback when due, the initial shock (one rand(n_banks) call on the
\* global generator) and the set-up of the trial's locals; an exception of
\* the callback leaves the function
Shock(p) ==
  /\ pc[p] = "for"
  /\ sim[p] < n_sim
  /\ \E o \in HeadOutcomes(progress_callback, sim[p]) :
       /\ Callback(p, o, Divide(sim[p], n_sim))
       /\ IF o = "raises"
          THEN /\ pc' = [pc EXCEPT ![p] = "raised"]
               /\ UNCHANGED <<rng, drawLog, trialVars>>
          ELSE /\ LET t == TrialStart(model_type[p], shock_prob, capital_buffer,
                                      n_banks, rng.seed, rng.pos)
                  IN /\ failed' = [failed EXCEPT ![p] = t.failed]
                     /\ capital' = [capital EXCEPT ![p] = t.capital]
                     /\ round_num' = [round_num EXCEPT ![p] = t.round_num]
                     /\ still_failing' = [still_failing EXCEPT ![p] = t.still_failing]
                     /\ failed_in_round' =
                          [failed_in_round EXCEPT ![p] = t.failed_in_round]
               /\ drawLog' = [drawLog EXCEPT ![p] = Append(@, rng)]
               /\ rng' = AdvanceRng(rng, n_banks)
               /\ pc' = [pc EXCEPT ![p] = "while"]
  /\ UNCHANGED <<apiVars, inputVars, model_type, sim, failures_record, matrixVars,
                 analysisVars, jobRowVars, progress_callback>>

Trial(p) ==
  [failed |-> failed[p], capital |-> capital[p], round_num |-> round_num[p],
   still_failing |-> still_failing[p], failed_in_round |-> failed_in_round[p]]

\* one pass of "while still_failing", up to the break check
Round(p) ==
  /\ pc[p] = "while"
  /\ LET t == RoundStep(model_type[p], exposure_matrix, lgd, n_banks, Trial(p))
     IN /\ failed' = [failed EXCEPT ![p] = t.failed]
        /\ capital' = [capital EXCEPT ![p] = t.capital]
        /\ round_num' = [round_num EXCEPT ![p] = t.round_num]
        /\ still_failing' = [still_failing EXCEPT ![p] = t.still_failing]
        /\ failed_in_round' = [failed_in_round EXCEPT ![p] = t.failed_in_round]
        /\ pc' = [pc EXCEPT ![p] =
                    IF CapReached(t.round_num) \/ ~t.still_failing
                    THEN "record" ELSE "while"]
  /\ UNCHANGED <<apiVars, inputVars, rng, model_type, sim, failures_record, drawLog, matrixVars, serviceVars>>

\* after the loop: append the trial's tuple, next sim
Record(p) ==
  /\ pc[p] = "record"
  /\ failures_record' = [failures_record EXCEPT ![p] =
        Append(@, TrialRecord(failed[p], failed_in_round[p], systemic_threshold, n_banks))]
  /\ sim' = [sim EXCEPT ![p] = @ + 1]
  /\ pc' = [pc EXCEPT ![p] = "for"]
  /\ UNCHANGED <<apiVars, inputVars, rng, model_type, drawLog, trialVars, matrixVars, serviceVars>>

\* range(n_sim) exhausted: the final progress update, return failures_record
Return(p) ==
  /\ pc[p] = "for"
  /\ sim[p] >= n_sim
  /\ \E o \in FinalOutcomes(progress_callback) :
       /\ Callback(p, o, Num(1, 1))
       /\ pc' = [pc EXCEPT ![p] = IF o = "raises" THEN "raised" ELSE "returned"]
  /\ UNCHANGED <<apiVars, inputVars, rng, model_type, sim, failures_record, drawLog,
                 trialVars, matrixVars, analysisVars, jobRowVars, progress_callback>>

Step(p) == Shock(p) \/ Round(p) \/ Record(p) \/ Return(p)

Next ==
  \/ \E p \in Runs : Call(p)
  \/ \E p \in Runs : Shock(p)
  \/ \E p \in Runs : Round(p)
  \/ \E p \in Runs : Record(p)
  \/ \E p \in Runs : Return(p)

Spec == Init /\ [][Next]_vars

\* the same program with the scheduling of a sequential interpreter: an
\* invocation that has been entered keeps executing
FairSpec == Spec /\ WF_vars(\E p \in Runs : Step(p))

\* ------------------------------------------------- overlapping invocations
\* Two requests served by threads of one process: a Traditional and a
\* Blockchain invocation whose steps interleave; both use np.random, the
\* generator of the process.
ConcRuns == {1, 2}

InitConc == Init /\ n_banks <= MaxBanks

NextConc ==
  \/ \E p \in ConcRuns : Enter(p)
  \/ \E p \in ConcRuns : Shock(p)
  \/ \E p \in ConcRuns : Round(p)
  \/ \E p \in ConcRuns : Record(p)
  \/ \E p \in ConcRuns : Return(p)

SpecConc == InitConc /\ [][NextConc]_vars

\* ------------------------------------------------- rosters of three banks
\* The same invocations on rosters one bank larger than the small ones,
\* where two failed banks charge a third and a bank can outlast a round.
Dented(n, e) == [Uniform(n, e) EXCEPT ![0][n - 1] = 0]

CascadeRosters ==
  {[n |-> MaxBanks + 1, buf |-> b, M |-> m] :
     b \in [Banks(MaxBanks + 1) -> CapVals \ {-1}],
     m \in {Uniform(MaxBanks + 1, e) : e \in ExpVals \ {0}}
          \cup {Dented(MaxBanks + 1, e) : e \in ExpVals \ {0}}}

InitCascade ==
  /\ \E r \in CascadeRosters :
       /\ n_banks = r.n
       /\ capital_buffer = r.buf
       /\ exposure_matrix = r.M
  /\ lgd \in LgdVals
  /\ shock_prob \in ShockVals
  /\ n_sim \in 1..MaxSim
  /\ systemic_threshold \in ThresholdVals
  /\ progress_callback = "none"
  /\ InitRuns
  /\ InitNoMatrix
  /\ InitNoAnalysis
  /\ InitNoJob
  /\ InitNoBankRequests

SpecCascade == InitCascade /\ [][Next]_vars

\* ------------------------------------------------ invocations with callback
\* monte_carlo_sim called with a progress callback that returns, or one
\* that may raise
InitCallback ==
  /\ InitInputs
  /\ n_banks <= MaxBanks
  /\ progress_callback \in {"reliable", "faulty"}

SpecCallback == InitCallback /\ [][Next]_vars

\* ------------------------------------------------- build_exposure_matrix
\* variant: the denominator is the sum of all assets
build_exposure_matrix_WholeTotal(a, l, n) ==
  LET total_assets == SumTo(a, n)
  IN [i \in Banks(n) |-> [j \in Banks(n) |->
        IF i # j THEN Divide(l[i] * a[j], total_assets) ELSE Zero]]

\* variant: no "if i != j" guard
build_exposure_matrix_FillsDiagonal(a, l, n) ==
  LET total_assets == SumTo(a, n)
  IN [i \in Banks(n) |-> [j \in Banks(n) |->
        Divide(l[i] * a[j], total_assets - a[i])]]

\* matrix[i, j] = liabilities[i] * assets[j] / (total_assets - assets[i])
build_exposure_matrix(a, l, n) ==
  LET total_assets == SumTo(a, n)
  IN [i \in Banks(n) |-> [j \in Banks(n) |->
        IF i # j THEN Divide(l[i] * a[j], total_assets - a[i]) ELSE Zero]]

\* trad_exposure * r: the derived Blockchain matrix (r in tenths)
get_blockchain_exposure_matrix(M, r, n) ==
  [i \in Banks(n) |-> [j \in Banks(n) |-> Times(M[i][j], Num(r, 10))]]

\* five banks, each with interbank assets 100 and liabilities 10
ExampleRoster == [n |-> 5, assets |-> 100, liabilities |-> 10]

InitMatrix ==
  /\ \/ \E n \in 1..(MaxBanks + 1) :
          /\ assets \in [Banks(n) -> AssetVals]
          /\ liabilities \in [Banks(n) -> LiabVals]
     \/ /\ assets = [i \in Banks(ExampleRoster.n) |-> ExampleRoster.assets]
        /\ liabilities = [i \in Banks(ExampleRoster.n) |-> ExampleRoster.liabilities]
  /\ bc_liability_reduction \in ReductionVals
  /\ bc_exposure = <<>>
  /\ matrix = <<>>
  /\ mpc = "input"
  /\ n_banks = 1
  /\ capital_buffer = [i \in Banks(1) |-> 0]
  /\ exposure_matrix = Uniform(1, 0)
  /\ lgd = 6
  /\ shock_prob = 0
  /\ n_sim = 1
  /\ systemic_threshold = 3
  /\ InitRuns
  /\ InitNoAnalysis
  /\ InitNoJob
  /\ InitNoBankRequests
  /\ progress_callback = "none"

BuildExposureMatrix ==
  /\ mpc = "input"
  /\ matrix' = build_exposure_matrix(assets, liabilities, Cardinality(DOMAIN assets))
  /\ mpc' = "built"
  /\ UNCHANGED <<apiVars, inputVars, rng, runVars, trialVars, assets, liabilities,
                 bc_liability_reduction, bc_exposure, serviceVars>>

\* bc_exposure = trad_exposure * r
GetBlockchainExposureMatrix ==
  /\ mpc = "built"
  /\ bc_exposure' = get_blockchain_exposure_matrix(matrix, bc_liability_reduction,
                                                   Cardinality(DOMAIN assets))
  /\ mpc' = "derived"
  /\ UNCHANGED <<apiVars, inputVars, rng, runVars, trialVars, assets, liabilities, matrix,
                 bc_liability_reduction, serviceVars>>

NextMatrix == BuildExposureMatrix \/ GetBlockchainExposureMatrix

SpecMatrix == InitMatrix /\ [][NextMatrix]_vars

\* ------------------------------------------------------------- analysis
\* summarize_results, calculate_improvements and
\* perform_statistical_analysis on float64 values kept as exact quotients.
MaxLen == 3        \* longest record list handed to the analysis

\* failures = [r[0] for r in results]
Failures(results) == [k \in 1..Len(results) |-> results[k].n_failures]

\* q[lo] + ... + q[hi], by halves
RECURSIVE SumRange(_, _, _)
SumRange(q, lo, hi) ==
  IF lo > hi THEN 0
  ELSE IF lo = hi THEN q[lo]
  ELSE SumRange(q, lo, (lo + hi) \div 2) + SumRange(q, (lo + hi) \div 2 + 1, hi)

SeqSum(q) == SumRange(q, 1, Len(q))

Squares(q) == [k \in 1..Len(q) |-> q[k] * q[k]]

\* n * sum(x^2) - sum(x)^2: n^2 times the population variance
SquaredDeviation(q) == Len(q) * SeqSum(Squares(q)) - SeqSum(q) * SeqSum(q)

HasRoot(v) == \E r \in 0..v : r * r = v

\* the square root of v, exact when v has a root and rounded down otherwise
Root(v) == CHOOSE r \in 0..v : r * r <= v /\ (r + 1) * (r + 1) > v

\* np.mean (nan for an empty list)
NpMean(q) == Divide(SeqSum(q), Len(q))

\* np.var, ddof = 0
NpVar(q) ==
  IF Len(q) = 0 THEN NaN ELSE Num(SquaredDeviation(q), Len(q) * Len(q))

\* variant: the deviation over n - 1
NpStd_LessOne(q) ==
  IF Len(q) = 0 THEN NaN ELSE Divide(Root(SquaredDeviation(q)), Len(q) - 1)

\* np.std, ddof = 0, for a list whose deviation is a quotient
NpStd(q) ==
  IF Len(q) = 0 THEN NaN ELSE Num(Root(SquaredDeviation(q)), Len(q))

Count(q, v) == Cardinality({k \in 1..Len(q) : q[k] = v})
SeqMax(q) == CHOOSE v \in {q[k] : k \in 1..Len(q)} : \A k \in 1..Len(q) : q[k] <= v
SeqMin(q) == CHOOSE v \in {q[k] : k \in 1..Len(q)} : \A k \in 1..Len(q) : q[k] >= v

\* the k-th smallest element of q
KthSmallest(q, k) ==
  CHOOSE v \in {q[i] : i \in 1..Len(q)} :
    /\ Cardinality({i \in 1..Len(q) : q[i] < v}) < k
    /\ Cardinality({i \in 1..Len(q) : q[i] <= v}) >= k

\* np.median
NpMedian(q) ==
  IF Len(q) % 2 = 1 THEN Num(KthSmallest(q, (Len(q) + 1) \div 2), 1)
  ELSE Num(KthSmallest(q, Len(q) \div 2) + KthSmallest(q, Len(q) \div 2 + 1), 2)

Raised(err) == [kind |-> "raised", error |-> err]

\* the summary of a list that is not empty (ci_lower and ci_upper, scipy's
\* normal interval, are left out)
Summary(results, thr) ==
  LET failures == Failures(results)
      n == Len(results)
      failed_idx == UNION {SeqToSet(results[k].failed_banks) : k \in 1..n}
  IN [kind |-> "summary",
      average_failures |-> NpMean(failures),
      median_failures |-> NpMedian(failures),
      max_failures |-> SeqMax(failures),
      min_failures |-> SeqMin(failures),
      std_dev_failures |-> NpStd(failures),
      probability_systemic_event |->
        Divide(Cardinality({k \in 1..n : results[k].systemic_event}), n),
      distribution |->
        [i \in 0..SeqMax(failures) |-> Divide(Count(failures, i) * 100, n)],
      bank_failures |->
        [b \in failed_idx |->
           Divide(Cardinality({k \in 1..n : b \in SeqToSet(results[k].failed_banks)}) * 100, n)],
      systemic_threshold |-> thr]

\* variant: an empty list summarised as all zeroes
summarize_results_ZeroOnEmpty(results, thr) ==
  IF Len(results) = 0
  THEN [kind |-> "summary", average_failures |-> Zero, median_failures |-> Zero,
        max_failures |-> 0, min_failures |-> 0, std_dev_failures |-> Zero,
        probability_systemic_event |-> Zero, distribution |-> (0 :> Zero),
        bank_failures |-> <<>>, systemic_threshold |-> thr]
  ELSE Summary(results, thr)

\* summarize_results: max(failures) of an empty list raises ValueError
summarize_results(results, thr) ==
  IF Len(results) = 0 THEN Raised("ValueError") ELSE Summary(results, thr)

\* variant: no "if ... > 0" guard
ImprovementPct_Unguarded(a, b) ==
  Times(Minus(Num(1, 1), Over(b, a)), Num(100, 1))

\* (1 - bc / trad) * 100 if trad > 0 else 0.0
ImprovementPct(a, b) ==
  IF Greater(a, Zero) THEN Times(Minus(Num(1, 1), Over(b, a)), Num(100, 1)) ELSE Zero

calculate_improvements(t, b) ==
  [kind |-> "improvements",
   average_failures |-> ImprovementPct(t.average_failures, b.average_failures),
   max_failures |-> t.max_failures - b.max_failures,
   probability_systemic_event |->
     ImprovementPct(t.probability_systemic_event, b.probability_systemic_event),
   std_dev_failures |-> ImprovementPct(t.std_dev_failures, b.std_dev_failures)]

\* the square of pooled_std
PooledVar(tf, bf) ==
  Over(Plus(Times(Num(Len(tf) - 1, 1), NpVar(tf)), Times(Num(Len(bf) - 1, 1), NpVar(bf))),
       Num(Len(tf) + Len(bf) - 2, 1))

\* pooled_std > 0 (np.sqrt keeps 0, inf and nan, and is nan below 0)
PooledStdPositive(pv) == Greater(pv, Zero)

\* a float kept by its sign and its square: mean_diff / pooled_std
SignedRoot(md, pv) == [sign |-> Sign(md), square |-> Over(Times(md, md), pv)]

\* variant: no "if pooled_std > 0" guard
CohensD_Unguarded(md, pv) == SignedRoot(md, pv)

\* cohens_d = mean_diff / pooled_std if pooled_std > 0 else 0
CohensD(md, pv) ==
  IF PooledStdPositive(pv) THEN SignedRoot(md, pv) ELSE [sign |-> 0, square |-> Zero]

\* "Small" below 0.5, "Medium" below 0.8, else "Large"
Effect(d) ==
  IF Less(d.square, Num(25, 100)) THEN "Small"
  ELSE IF Less(d.square, Num(64, 100)) THEN "Medium"
  ELSE "Large"

\* perform_statistical_analysis (t_stat and p_value, scipy's ttest_ind, are
\* left out)
perform_statistical_analysis(tf, bf) ==
  LET d == CohensD(Minus(NpMean(tf), NpMean(bf)), PooledVar(tf, bf))
  IN [kind |-> "analysis", cohens_d |-> d, effect |-> Effect(d)]

\* a record with f failed banks, as monte_carlo_sim appends it
ResultOf(f, thr) ==
  TrialRecord([i \in Banks(MaxBanks) |-> i < f],
              (0 :> NpWhere([i \in Banks(MaxBanks) |-> i < f], MaxBanks)),
              thr, MaxBanks)

\* the lists offered: failure counts 0..MaxBanks, up to MaxLen records, the
\* deviation of the counts a quotient
RECURSIVE SeqsUpTo(_, _)
SeqsUpTo(S, n) ==
  IF n = 0 THEN {<<>>}
  ELSE SeqsUpTo(S, n - 1) \cup
       {Append(q, v) : q \in {r \in SeqsUpTo(S, n - 1) : Len(r) = n - 1}, v \in S}

FailureLists == {q \in SeqsUpTo(0..MaxBanks, MaxLen) : HasRoot(SquaredDeviation(q))}

ResultLists(thr) ==
  {[k \in 1..Len(q) |-> ResultOf(q[k], thr)] : q \in FailureLists}

InitAnalysis ==
  /\ systemic_threshold \in ThresholdVals
  /\ trad_results \in ResultLists(systemic_threshold)
  /\ bc_results \in ResultLists(systemic_threshold)
  /\ trad_summary = NoSummary
  /\ bc_summary = NoSummary
  /\ improvements = NoSummary
  /\ statistical_analysis = NoSummary
  /\ analysis_error = "none"
  /\ apc = "input"
  /\ n_banks = MaxBanks
  /\ capital_buffer = [i \in Banks(MaxBanks) |-> 0]
  /\ exposure_matrix = Uniform(MaxBanks, 0)
  /\ lgd = 6
  /\ shock_prob = 0
  /\ n_sim = 1
  /\ InitRuns
  /\ InitNoMatrix
  /\ InitNoJob
  /\ InitNoBankRequests
  /\ progress_callback = "none"

\* perform_statistical_analysis on the failure counts of the two lists (a
\* function of the lists only, applied at any point of the analysis)
PerformStatisticalAnalysis ==
  /\ apc # "none"
  /\ statistical_analysis.kind = "none"
  /\ statistical_analysis' =
       perform_statistical_analysis(Failures(trad_results), Failures(bc_results))
  /\ UNCHANGED <<apiVars, inputVars, rng, runVars, trialVars, matrixVars, trad_results,
                 bc_results, trad_summary, bc_summary, improvements, analysis_error,
                 apc, jobVars, callbackVars>>

\* summarize_results on the Traditional list, then on the Blockchain list;
\* an exception ends the analysis
SummarizeResults ==
  /\ apc = "input"
  /\ LET t == summarize_results(trad_results, systemic_threshold)
         b == summarize_results(bc_results, systemic_threshold)
     IN IF t.kind = "raised"
        THEN /\ analysis_error' = t.error
             /\ apc' = "raised"
             /\ UNCHANGED <<trad_summary, bc_summary>>
        ELSE IF b.kind = "raised"
        THEN /\ trad_summary' = t
             /\ analysis_error' = b.error
             /\ apc' = "raised"
             /\ UNCHANGED bc_summary
        ELSE /\ trad_summary' = t
             /\ bc_summary' = b
             /\ apc' = "summarized"
             /\ UNCHANGED analysis_error
  /\ UNCHANGED <<apiVars, inputVars, rng, runVars, trialVars, matrixVars, trad_results,
                 bc_results, improvements, statistical_analysis, jobVars,
                 callbackVars>>

\* calculate_improvements on the two summaries
CalculateImprovements ==
  /\ apc = "summarized"
  /\ improvements' = calculate_improvements(trad_summary, bc_summary)
  /\ apc' = "improved"
  /\ UNCHANGED <<apiVars, inputVars, rng, runVars, trialVars, matrixVars, trad_results,
                 bc_results, trad_summary, bc_summary, statistical_analysis,
                 analysis_error, jobVars, callbackVars>>

NextAnalysis ==
  \/ PerformStatisticalAnalysis
  \/ SummarizeResults
  \/ CalculateImprovements

SpecAnalysis == InitAnalysis /\ [][NextAnalysis]_vars

\* ---------------------------------------------------------- run_simulation
\* The Celery task on one Simulation row, and cancel_simulation of the API.
\* A parameter value is [t, v]: absent, an int, a float (v in thousandths),
\* a bool (v is 0 or 1) or a str.  status_message is not modelled.
RequiredParams ==
  <<"shock_prob", "n_sim", "systemic_threshold", "trad_lgd", "bc_lgd",
    "bc_liability_reduction">>

Missing == [t |-> "missing", v |-> 0]
IntValue(v) == [t |-> "int", v |-> v]
FloatValue(v) == [t |-> "float", v |-> v]
BoolValue(v) == [t |-> "bool", v |-> v]
StrValue == [t |-> "str", v |-> 0]

\* the number x in thousandths (True is 1, False is 0)
Thousandths(x) == IF x.t = "float" THEN x.v ELSE x.v * 1000

\* isinstance(x, int): bool is a subclass of int
IsInstanceInt(x) == x.t \in {"int", "bool"}

\* "not 0 < x < 1"
OutOfUnitInterval(x) == ~(0 < Thousandths(x) /\ Thousandths(x) < 1000)

RECURSIVE FirstMissing(_, _)
FirstMissing(ps, k) ==
  IF k > Len(RequiredParams) THEN "none"
  ELSE IF ps[RequiredParams[k]].t = "missing" THEN RequiredParams[k]
  ELSE FirstMissing(ps, k + 1)

MissingMessage ==
  [shock_prob |-> "Missing required parameter: shock_prob",
   n_sim |-> "Missing required parameter: n_sim",
   systemic_threshold |-> "Missing required parameter: systemic_threshold",
   trad_lgd |-> "Missing required parameter: trad_lgd",
   bc_lgd |-> "Missing required parameter: bc_lgd",
   bc_liability_reduction |-> "Missing required parameter: bc_liability_reduction"]

RangeMessage ==
  [shock_prob |-> "shock_prob must be between 0 and 1",
   trad_lgd |-> "trad_lgd must be between 0 and 1",
   bc_lgd |-> "bc_lgd must be between 0 and 1",
   bc_liability_reduction |-> "bc_liability_reduction must be between 0 and 1"]

Message(m) == [kind |-> "message", error |-> m]
NoError == [kind |-> "none", error |-> "none"]

\* one "if not 0 < params[name] < 1" check, then the checks that follow it;
\* comparing a str with 0 raises TypeError
RangeCheck(ps, name, rest) ==
  IF ps[name].t = "str" THEN Raised("TypeError")
  ELSE IF OutOfUnitInterval(ps[name]) THEN Message(RangeMessage[name])
  ELSE rest

\* validate_parameters: the error message, none, or an exception
validate_parameters(ps) ==
  IF FirstMissing(ps, 1) # "none" THEN Message(MissingMessage[FirstMissing(ps, 1)])
  ELSE RangeCheck(ps, "shock_prob",
    IF ~IsInstanceInt(ps.n_sim) \/ ps.n_sim.v < MinSim
    THEN Message("n_sim must be an integer of at least 100")
    ELSE IF ~IsInstanceInt(ps.systemic_threshold) \/ ps.systemic_threshold.v < 1
    THEN Message("systemic_threshold must be an integer of at least 1")
    ELSE RangeCheck(ps, "trad_lgd",
           RangeCheck(ps, "bc_lgd",
             RangeCheck(ps, "bc_liability_reduction", NoError))))

\* str(e) of the exceptions met
ExceptionText(err) ==
  IF err = "TypeError"
  THEN "'<' not supported between instances of 'int' and 'str'"
  ELSE IF err = "int64"
  THEN "Object of type int64 is not JSON serializable"
  ELSE "max() arg is an empty sequence"

\* the default parameters of the service, with a threshold two banks reach
BaseParams ==
  [shock_prob |-> FloatValue(30), n_sim |-> IntValue(MinSim), systemic_threshold |-> IntValue(2),
   trad_lgd |-> FloatValue(600), bc_lgd |-> FloatValue(300),
   bc_liability_reduction |-> FloatValue(500)]

\* the values a parameter takes in place of its default
OtherValues(name) ==
  IF name = "n_sim"
  THEN {Missing, IntValue(MinSim - 1), IntValue(MinSim + 1), FloatValue(MinSim * 1000), BoolValue(1), StrValue}
  ELSE IF name = "systemic_threshold"
  THEN {Missing, IntValue(0), FloatValue(2000), BoolValue(0), BoolValue(1), StrValue}
  ELSE {Missing, FloatValue(0), FloatValue(1000), IntValue(1), BoolValue(1), StrValue}

ParamSets ==
  {BaseParams} \cup
  UNION {{[BaseParams EXCEPT ![name] = v] : v \in OtherValues(name)} :
         name \in SeqToSet(RequiredParams)}

\* the Bank table of the job: two banks with whole exposures
JobBanks ==
  [n |-> 2, buf |-> [i \in Banks(2) |-> 2], assets |-> [i \in Banks(2) |-> 2],
   liabilities |-> [i \in Banks(2) |-> 4]]

\* a float matrix of whole numbers as the trial loop takes it
Whole(M, n) == [i \in Banks(n) |-> [j \in Banks(n) |-> M[i][j].num \div M[i][j].den]]

InitJob ==
  /\ params \in ParamSets
  /\ banks \in {NoBanks, JobBanks}
  /\ jpc = "queued"
  /\ status = "pending"
  /\ progress = Zero
  /\ error_message = "none"
  /\ result = NoSummary
  /\ progress_callback = "update_progress"
  /\ n_banks = 1
  /\ capital_buffer = [i \in Banks(1) |-> 0]
  /\ exposure_matrix = Uniform(1, 0)
  /\ lgd = 6
  /\ shock_prob = 0
  /\ n_sim = 1
  /\ systemic_threshold = 3
  /\ InitRuns
  /\ InitNoMatrix
  /\ InitNoAnalysis
  /\ InitNoBankRequests

\* run_simulation, lines 33-42: the row is set running
TaskStart ==
  /\ jpc = "queued"
  /\ status' = "running"
  /\ progress' = Zero
  /\ jpc' = "started"
  /\ UNCHANGED <<apiVars, inputVars, rng, runVars, trialVars, matrixVars, analysisVars,
                 callbackVars, params, banks, error_message, result>>

\* variant: the task ends without touching the status
Failed_LeavesStatus(m) ==
  /\ status' = status
  /\ error_message' = m
  /\ jpc' = "done"

\* the row marked failed with message m: the task is over
Failed(m) ==
  /\ status' = "failed"
  /\ error_message' = m
  /\ jpc' = "done"

\* lines 44-61: validation, then the bank table
ValidateParameters ==
  /\ jpc = "started"
  /\ LET validation_error == validate_parameters(params)
     IN IF validation_error.kind = "raised"
        THEN Failed(ExceptionText(validation_error.error))
        ELSE IF validation_error.kind = "message"
        THEN Failed(validation_error.error)
        ELSE IF banks.n = 0
        THEN Failed("No bank data available")
        ELSE jpc' = "validated" /\ UNCHANGED <<status, error_message>>
  /\ UNCHANGED <<apiVars, inputVars, rng, runVars, trialVars, matrixVars, analysisVars,
                 callbackVars, params, banks, progress, result>>

\* lines 63-81: the data frame, progress 0.1, the two matrices
BuildMatrices ==
  /\ jpc = "validated"
  /\ progress' = Num(1, 10)
  /\ n_banks' = banks.n
  /\ capital_buffer' = banks.buf
  /\ assets' = banks.assets
  /\ liabilities' = banks.liabilities
  /\ bc_liability_reduction' = Thousandths(params.bc_liability_reduction) \div 100
  /\ \E M \in {build_exposure_matrix(banks.assets, banks.liabilities, banks.n)} :
       /\ matrix' = M
       /\ bc_exposure' =
            get_blockchain_exposure_matrix(
              M, Thousandths(params.bc_liability_reduction) \div 100, banks.n)
  /\ mpc' = "derived"
  /\ jpc' = "built"
  /\ UNCHANGED <<apiVars, exposure_matrix, lgd, shock_prob, n_sim, systemic_threshold, rng,
                 runVars, trialVars, analysisVars, callbackVars, params, banks,
                 status, error_message, result>>

\* the arguments of a monte_carlo_sim call of the task
PassArguments(M, l) ==
  /\ exposure_matrix' = Whole(M, n_banks)
  /\ lgd' = Thousandths(l) \div 100
  /\ shock_prob' = Thousandths(params.shock_prob)
  /\ n_sim' = params.n_sim.v
  /\ systemic_threshold' = params.systemic_threshold.v

\* lines 84-95: progress 0.2 and the Traditional call
StartTraditional ==
  /\ jpc = "built"
  /\ progress' = Num(2, 10)
  /\ PassArguments(matrix, params.trad_lgd)
  /\ jpc' = "traditional"
  /\ UNCHANGED <<apiVars, n_banks, capital_buffer, rng, runVars, trialVars, matrixVars,
                 analysisVars, callbackVars, params, banks, status, error_message,
                 result>>

\* lines 98-109: progress 0.5 and the Blockchain call
StartBlockchain ==
  /\ jpc = "traditional"
  /\ pc[1] = "returned"
  /\ progress' = Num(5, 10)
  /\ PassArguments(bc_exposure, params.bc_lgd)
  /\ jpc' = "blockchain"
  /\ UNCHANGED <<apiVars, n_banks, capital_buffer, rng, runVars, trialVars, matrixVars,
                 analysisVars, callbackVars, params, banks, status, error_message,
                 result>>

\* the invocation of monte_carlo_sim the task is in
JobRun == IF jpc = "traditional" THEN {1} ELSE IF jpc = "blockchain" THEN {2} ELSE {}

\* line 112: progress 0.8
StartAnalysis ==
  /\ jpc = "blockchain"
  /\ pc[2] = "returned"
  /\ progress' = Num(8, 10)
  /\ jpc' = "analysis"
  /\ UNCHANGED <<apiVars, inputVars, rng, runVars, trialVars, matrixVars, analysisVars,
                 callbackVars, params, banks, status, error_message, result>>

\* lines 114-125: the summaries, the improvements, the statistical analysis
\* (the lists hold n_sim >= 100 records each) and progress 0.9
AnalyzeResults ==
  /\ jpc = "analysis"
  /\ trad_results' = failures_record[1]
  /\ bc_results' = failures_record[2]
  /\ \E t \in {summarize_results(failures_record[1], params.systemic_threshold.v)} :
       \E b \in {summarize_results(failures_record[2], params.systemic_threshold.v)} :
         /\ trad_summary' = t
         /\ bc_summary' = b
         /\ improvements' = calculate_improvements(t, b)
  /\ statistical_analysis' =
       perform_statistical_analysis(Failures(failures_record[1]),
                                    Failures(failures_record[2]))
  /\ apc' = "improved"
  /\ progress' = Num(9, 10)
  /\ jpc' = "saving"
  /\ UNCHANGED <<apiVars, inputVars, rng, runVars, trialVars, matrixVars, analysis_error,
                 callbackVars, params, banks, status, error_message, result>>

\* the type of the n_failures of a record: np.sum(failed) is a numpy.int64
NFailuresType == "int64"

\* json.dumps in the setters of SimulationResult (models/simulation.py):
\* the encoder takes Python numbers, strings, lists and dicts and raises
\* TypeError on a numpy integer
JsonSerializable(values, type) == Len(values) = 0 \/ type # "int64"

\* lines 127-160 and 162-170: SimulationResult(...) runs the setters; raw_data
\* holds the n_failures of the records, so its json.dumps raises and the
\* handler marks the row failed with str(e). Were the lists serializable,
\* the result row and status completed, progress 1.0 go in one commit.
SaveResults ==
  /\ jpc = "saving"
  /\ IF JsonSerializable(Failures(trad_results), NFailuresType)
     THEN /\ result' = [kind |-> "result", traditional_summary |-> trad_summary,
                        blockchain_summary |-> bc_summary, improvements |-> improvements,
                        statistical_analysis |-> statistical_analysis]
          /\ status' = "completed"
          /\ progress' = Num(1, 1)
          /\ error_message' = "none"
          /\ jpc' = "done"
     ELSE /\ Failed(ExceptionText("int64"))
          /\ UNCHANGED <<result, progress>>
  /\ UNCHANGED <<apiVars, inputVars, rng, runVars, trialVars, matrixVars, analysisVars,
                 callbackVars, params, banks>>

\* cancel_simulation: a pending or running row is set canceled
CancelSimulation ==
  /\ status \in {"pending", "running"}
  /\ status' = "canceled"
  /\ UNCHANGED <<apiVars, inputVars, rng, runVars, trialVars, matrixVars, analysisVars,
                 callbackVars, params, banks, jpc, progress, error_message, result>>

NextJob ==
  \/ TaskStart
  \/ ValidateParameters
  \/ BuildMatrices
  \/ StartTraditional
  \/ \E p \in JobRun : Call(p)
  \/ \E p \in JobRun : Shock(p)
  \/ \E p \in JobRun : Round(p)
  \/ \E p \in JobRun : Record(p)
  \/ \E p \in JobRun : Return(p)
  \/ StartBlockchain
  \/ StartAnalysis
  \/ AnalyzeResults
  \/ SaveResults
  \/ CancelSimulation

SpecJob == InitJob /\ [][NextJob]_vars

\* -------------------------------------------------------------- banks API
\* create_bank, update_bank and import_banks of api/banks.py on the banks
\* table: a request of an administrator arrives and is served, one at a
\* time.  A submitted value is
\* [t, v] as in a parameter dict, or the text "nan"; a stored value is a
\* float.  The name field of an update is not modelled.
BankNames == {"A", "B"}

NumericFields ==
  <<"cet1_ratio", "total_assets", "interbank_assets", "interbank_liabilities",
    "capital_buffer">>

RequiredFields ==
  {"cet1_ratio", "total_assets", "interbank_assets", "interbank_liabilities"}

\* the text "nan" (or the JSON literal NaN)
NanValue == [t |-> "nan", v |-> 0]

\* float(x): the number, nan for "nan", ValueError for any other text
PyFloat(x) ==
  IF x.t \in {"int", "bool"} THEN Num(x.v, 1)
  ELSE IF x.t = "float" THEN Num(x.v, 1000)
  ELSE IF x.t = "nan" THEN NaN
  ELSE Raised("ValueError")

\* the loop over numeric_fields: the first error, or none
RECURSIVE NumericError(_, _)
NumericError(data, k) ==
  IF k > Len(NumericFields) THEN "none"
  ELSE LET x == data[NumericFields[k]]
       IN IF x.t = "missing" THEN NumericError(data, k + 1)
          ELSE IF PyFloat(x).kind = "raised" THEN "must be a number"
          ELSE IF Less(PyFloat(x), Zero) THEN "cannot be negative"
          ELSE NumericError(data, k + 1)

\* "float(data['interbank_assets']) > float(data['total_assets'])" when both
\* are in data
ExceedsTotal(data) ==
  /\ data.interbank_assets.t # "missing"
  /\ data.total_assets.t # "missing"
  /\ Greater(PyFloat(data.interbank_assets), PyFloat(data.total_assets))

\* validate_bank_data: the error message, or valid
validate_bank_data(data, is_update) ==
  IF ~is_update /\ \E f \in RequiredFields : data[f].t = "missing"
  THEN "Missing required field"
  ELSE IF NumericError(data, 1) # "none" THEN NumericError(data, 1)
  ELSE IF data.cet1_ratio.t # "missing"
          /\ Greater(PyFloat(data.cet1_ratio), Num(100, 1))
  THEN "CET1 ratio cannot exceed 100%"
  ELSE IF ExceedsTotal(data)
  THEN "Interbank assets cannot exceed total assets"
  ELSE "valid"

\* cet1_ratio * total_assets * 0.01
DefaultBuffer(cet1, total) == Times(Times(cet1, total), Num(1, 100))

\* Bank(...) of validated data, with the capital buffer given or calculated
NewBank(data) ==
  [kind |-> "bank",
   cet1_ratio |-> PyFloat(data.cet1_ratio),
   total_assets |-> PyFloat(data.total_assets),
   interbank_assets |-> PyFloat(data.interbank_assets),
   interbank_liabilities |-> PyFloat(data.interbank_liabilities),
   capital_buffer |->
     IF data.capital_buffer.t = "missing"
     THEN DefaultBuffer(PyFloat(data.cet1_ratio), PyFloat(data.total_assets))
     ELSE PyFloat(data.capital_buffer)]

\* the field of bank after "if field in data: bank.field = float(data[field])"
Assigned(bank, data, field) ==
  IF data[field].t = "missing" THEN bank[field] ELSE PyFloat(data[field])

\* the bank object after the assignments of update_bank
UpdatedBank(bank, data) ==
  [kind |-> "bank",
   cet1_ratio |-> Assigned(bank, data, "cet1_ratio"),
   total_assets |-> Assigned(bank, data, "total_assets"),
   interbank_assets |-> Assigned(bank, data, "interbank_assets"),
   interbank_liabilities |-> Assigned(bank, data, "interbank_liabilities"),
   capital_buffer |->
     IF data.capital_buffer.t # "missing" THEN PyFloat(data.capital_buffer)
     ELSE IF data.cet1_ratio.t # "missing" \/ data.total_assets.t # "missing"
     THEN DefaultBuffer(Assigned(bank, data, "cet1_ratio"),
                        Assigned(bank, data, "total_assets"))
     ELSE bank.capital_buffer]

HoldsNaN(bank) == \E f \in SeqToSet(NumericFields) : bank[f].kind = "nan"

\* db.session.commit() of the table as the session holds it: SQLite binds a
\* nan as NULL, which the nullable=False columns refuse; PostgreSQL stores it
Commits(table) ==
  \/ backend = "postgresql"
  \/ \A name \in BankNames : table[name].kind = "bank" => ~HoldsNaN(table[name])

\* one row of the CSV file applied to the table of the session: a row that
\* does not convert or validate is reported and skipped
ApplyRow(table, row) ==
  IF \E f \in RequiredFields : PyFloat(row.data[f]).kind = "raised" THEN table
  ELSE IF row.data.capital_buffer.t # "missing"
          /\ PyFloat(row.data.capital_buffer).kind = "raised" THEN table
  ELSE IF validate_bank_data(row.data, FALSE) # "valid" THEN table
  ELSE [table EXCEPT ![row.name] = NewBank(row.data)]

RECURSIVE ApplyRows(_, _, _)
ApplyRows(table, file, k) ==
  IF k > Len(file) THEN table
  ELSE CHOOSE r \in {ApplyRows(t, file, k + 1) : t \in {ApplyRow(table, file[k])}} : TRUE

\* the data submitted: a valid bank, the same with one field changed, and
\* interbank assets above the total assets
BaseBank ==
  [cet1_ratio |-> IntValue(10), total_assets |-> IntValue(2),
   interbank_assets |-> IntValue(1), interbank_liabilities |-> IntValue(1),
   capital_buffer |-> Missing]

FieldValues(field) ==
  {Missing, IntValue(-1), StrValue} \cup
  (IF field = "cet1_ratio" THEN {IntValue(101)}
   ELSE IF field = "total_assets" THEN {IntValue(0)}
   ELSE IF field = "interbank_assets" THEN {IntValue(3), NanValue}
   ELSE IF field = "capital_buffer" THEN {IntValue(1)}
   ELSE {})

NoFields == [f \in SeqToSet(NumericFields) |-> Missing]

CreateData ==
  {BaseBank} \cup
  UNION {{[BaseBank EXCEPT ![f] = v] : v \in FieldValues(f)} :
         f \in SeqToSet(NumericFields)}

UpdateData ==
  UNION {{[NoFields EXCEPT ![f] = v] : v \in FieldValues(f) \cup {BaseBank[f]}} :
         f \in SeqToSet(NumericFields)}
  \cup {[NoFields EXCEPT !.interbank_assets = IntValue(3), !.total_assets = IntValue(2)]}

CsvRows == {[name |-> name, data |-> d] : name \in BankNames, d \in CreateData}

CsvFiles ==
  {<<r>> : r \in CsvRows} \cup
  {<<[name |-> "A", data |-> BaseBank], r>> : r \in CsvRows}

BankRequests ==
  {[op |-> "create", name |-> name, data |-> d] : name \in BankNames, d \in CreateData}
  \cup {[op |-> "update", name |-> name, data |-> d] : name \in BankNames, d \in UpdateData}
  \cup {[op |-> "import", name |-> "none", data |-> file] : file \in CsvFiles}

InitBanks ==
  /\ bankStore = [name \in BankNames |-> NoBank]
  /\ backend \in {"sqlite", "postgresql"}
  /\ request = NoRequest
  /\ response = 0
  /\ n_banks = 1
  /\ capital_buffer = [i \in Banks(1) |-> 0]
  /\ exposure_matrix = Uniform(1, 0)
  /\ lgd = 6
  /\ shock_prob = 0
  /\ n_sim = 1
  /\ systemic_threshold = 3
  /\ progress_callback = "none"
  /\ InitRuns
  /\ InitNoMatrix
  /\ InitNoAnalysis
  /\ InitNoJob

\* a request arrives
Receive(r) ==
  /\ request.op = "none"
  /\ request' = r
  /\ response' = 0
  /\ UNCHANGED <<bankStore, backend, inputVars, rng, runVars, trialVars, matrixVars,
                 serviceVars>>

\* the commit of a create or an update: the row stored, or the
\* IntegrityError left to the framework (500)
CommitBank(name, bank, ok) ==
  IF Commits([bankStore EXCEPT ![name] = bank])
  THEN bankStore' = [bankStore EXCEPT ![name] = bank] /\ response' = ok
  ELSE UNCHANGED bankStore /\ response' = 500

\* create_bank
CreateBank ==
  /\ request.op = "create"
  /\ IF validate_bank_data(request.data, FALSE) # "valid"
     THEN response' = 400 /\ UNCHANGED bankStore
     ELSE IF bankStore[request.name].kind = "bank"
     THEN response' = 409 /\ UNCHANGED bankStore
     ELSE CommitBank(request.name, NewBank(request.data), 201)
  /\ request' = NoRequest
  /\ UNCHANGED <<backend, inputVars, rng, runVars, trialVars, matrixVars, serviceVars>>

\* update_bank: a request that fails the final check returns without a
\* commit, and the session is discarded with the request
UpdateBank ==
  /\ request.op = "update"
  /\ IF bankStore[request.name].kind # "bank"
     THEN response' = 404 /\ UNCHANGED bankStore
     ELSE IF validate_bank_data(request.data, TRUE) # "valid"
     THEN response' = 400 /\ UNCHANGED bankStore
     ELSE \E bank \in {UpdatedBank(bankStore[request.name], request.data)} :
            IF Greater(bank.interbank_assets, bank.total_assets)
            THEN response' = 400 /\ UNCHANGED bankStore
            ELSE CommitBank(request.name, bank, 200)
  /\ request' = NoRequest
  /\ UNCHANGED <<backend, inputVars, rng, runVars, trialVars, matrixVars, serviceVars>>

\* import_banks: every row applied in the session, then one commit; an
\* exception of the commit is answered 400
ImportBanks ==
  /\ request.op = "import"
  /\ \E table \in {ApplyRows(bankStore, request.data, 1)} :
       IF Commits(table)
       THEN bankStore' = table /\ response' = 200
       ELSE UNCHANGED bankStore /\ response' = 400
  /\ request' = NoRequest
  /\ UNCHANGED <<backend, inputVars, rng, runVars, trialVars, matrixVars, serviceVars>>

NextBanks ==
  \/ \E r \in BankRequests : Receive(r)
  \/ CreateBank
  \/ UpdateBank
  \/ ImportBanks

SpecBanks == InitBanks /\ [][NextBanks]_vars

\* ================================================================ claims
Records(p) == {failures_record[p][k] : k \in 1..Len(failures_record[p])}
AllBanks == NpWhere([i \in Banks(n_banks) |-> TRUE], n_banks)

\* the list monte_carlo_sim(model_type = mt) returns when nothing else
\* touches the generator: trial k runs on draws k*n .. k*n+n-1 of the
\* stream seeded with the regime's seed
TrialAlone(mt, k) ==
  CHOOSE r \in
    {TrialRecord(t.failed, t.failed_in_round, systemic_threshold, n_banks) :
       t \in {Cascade(mt, exposure_matrix, lgd, n_banks, s) :
                s \in {TrialStart(mt, shock_prob, capital_buffer, n_banks,
                                  RegimeSeed(mt), k * n_banks)}}} : TRUE

RunAlone(mt) == [k \in 1..n_sim |-> TrialAlone(mt, k - 1)]

\* C1: two returned invocations of the same regime (same roster, matrix,
\* lgd, shock_prob, n_sim, threshold) hold identical record lists, whatever
\* invocation ran before or between them.
C1_Deterministic ==
  \A p, q \in Runs :
    (pc[p] = "returned" /\ pc[q] = "returned" /\ model_type[p] = model_type[q])
      => failures_record[p] = failures_record[q]

\* two Traditional invocations returned, a Blockchain one in between, and
\* the initial shock failed some but not all banks
C1_Witness ==
  /\ pc[1] = "returned" /\ pc[2] = "returned" /\ pc[3] = "returned"
  /\ n_sim = MaxSim
  /\ \E r \in Records(3) : r.n_failures > 0 /\ r.n_failures < n_banks

\* C2: a pass of the loop is entered only after a pass with a new failure
\* and with at most 10 passes in all (round_num counts from 1), and every
\* behaviour ends with each invocation that was entered returned.
C2_Terminates ==
  /\ [](\A p \in Runs :
          /\ round_num[p] <= RoundCap + 1
          /\ pc[p] = "while" => (still_failing[p] /\ round_num[p] <= RoundCap))
  /\ <>[](\A p \in Runs : pc[p] \in {"idle", "returned"})

\* a trial cut off by the cap: the tenth pass still produced a failure
C2_Witness ==
  \E p \in Runs :
    pc[p] = "record" /\ round_num[p] = RoundCap + 1 /\ still_failing[p]

\* C3 (as claimed): when the loop ended on a pass without new failure, one
\* more pass from the final state fails no further bank.
C3_FixedPoint ==
  \A p \in Runs :
    (pc[p] = "record" /\ ~still_failing[p])
      => ~RoundStep(model_type[p], exposure_matrix, lgd, n_banks, Trial(p)).still_failing

\* C4: in every record, systemic_event holds iff n_failures >= the
\* systemic threshold of the run.
C4_SystemicIffThreshold ==
  \A p \in Runs : \A r \in Records(p) :
    r.systemic_event <=> (r.n_failures >= systemic_threshold)

\* a record whose failure count is exactly the threshold
C4_Witness ==
  \E p \in Runs : \E r \in Records(p) :
    r.n_failures = systemic_threshold /\ r.systemic_event

\* C5: in every record failed_banks has no duplicate, holds only indices
\* 0..n-1 and has n_failures elements, and 0 <= n_failures <= n.
C5_FailedIndices ==
  \A p \in Runs : \A r \in Records(p) :
    /\ \A a, b \in 1..Len(r.failed_banks) :
         a # b => r.failed_banks[a] # r.failed_banks[b]
    /\ SeqToSet(r.failed_banks) \subseteq Banks(n_banks)
    /\ Len(r.failed_banks) = r.n_failures
    /\ 0 <= r.n_failures /\ r.n_failures <= n_banks

\* a record with banks failed by contagion on top of the initial shock
C5_Witness ==
  \E p \in Runs : \E r \in Records(p) :
    r.n_failures > Len(r.failed_in_round[0]) /\ Len(r.failed_in_round[0]) > 0

NonNegativeBuffers == \A i \in Banks(n_banks) : capital_buffer[i] >= 0

\* C6: with shock_prob = 0 and non-negative capital buffers every record
\* has n_failures = 0, an empty round-0 list and systemic_event false.
C6_NoShockNoFailure ==
  (shock_prob = 0 /\ NonNegativeBuffers) =>
    \A p \in Runs : \A r \in Records(p) :
      r.n_failures = 0 /\ r.failed_in_round[0] = <<>> /\ ~r.systemic_event

\* a Blockchain record under shock_prob = 0, a zero buffer and exposures
C6_Witness ==
  /\ shock_prob = 0 /\ NonNegativeBuffers
  /\ \E i \in Banks(n_banks) : capital_buffer[i] = 0
  /\ \E i, j \in Banks(n_banks) : exposure_matrix[i][j] > 0
  /\ Len(failures_record[1]) = MaxSim /\ Len(failures_record[2]) = MaxSim

ZeroBuffers == \A i \in Banks(n_banks) : capital_buffer[i] = 0

\* C7 (as claimed): with shock_prob = 1 and all buffers 0, in either
\* regime every record has all n banks in round 0 and n_failures = n.
C7_AllFailRound0 ==
  (shock_prob = 1000 /\ ZeroBuffers) =>
    \A p \in Runs : \A r \in Records(p) :
      r.failed_in_round[0] = AllBanks /\ r.n_failures = n_banks

\* C7 (amended): the same for the records of a Traditional invocation.
C7_AllFailRound0_Traditional ==
  (shock_prob = 1000 /\ ZeroBuffers) =>
    \A p \in Runs : model_type[p] = "Traditional" =>
      \A r \in Records(p) :
        r.failed_in_round[0] = AllBanks /\ r.n_failures = n_banks

\* a Traditional record under shock_prob = 1 and zero buffers, two banks
C7_Witness ==
  /\ shock_prob = 1000 /\ ZeroBuffers /\ n_banks >= 2
  /\ pc[1] = "returned" /\ model_type[1] = "Traditional"
  /\ Len(failures_record[1]) = MaxSim

\* C8 (as claimed): an invocation that overlaps another returns the list
\* it returns when executed alone.
C8_IndependentRuns ==
  \A p \in Runs : pc[p] = "returned" => failures_record[p] = RunAlone(model_type[p])

\* C9: every rand() call of an invocation finds the generator on the
\* regime's seed at draw k*n for trial k (seeded once, not reseeded), the
\* k-th record is the outcome of trial k on those draws, and the returned
\* list has n_sim records.
C9_OneSeededStream ==
  \A p \in Runs :
    /\ \A k \in 1..Len(drawLog[p]) :
         drawLog[p][k] = [seed |-> RegimeSeed(model_type[p]), pos |-> (k - 1) * n_banks]
    /\ \A k \in 1..Len(failures_record[p]) :
         failures_record[p][k] = TrialAlone(model_type[p], k - 1)
    /\ Len(failures_record[p]) <= Len(drawLog[p])
    /\ pc[p] = "returned" => Len(failures_record[p]) = n_sim

\* a returned invocation of more than one trial on more than one bank
C9_Witness ==
  \E p \in Runs :
    /\ pc[p] = "returned" /\ n_sim = MaxSim /\ n_banks >= 2
    /\ Len(drawLog[p]) = MaxSim /\ drawLog[p][MaxSim].pos > 0

NonNegativeInputs ==
  \A i \in DOMAIN assets : assets[i] >= 0 /\ liabilities[i] >= 0

\* every denominator the builder uses is non-zero
MatrixDefined ==
  LET n == Cardinality(DOMAIN assets)
  IN n >= 2 => \A i \in Banks(n) : SumTo(assets, n) - assets[i] # 0

IsZero(x) == x.kind = "num" /\ x.num = 0
IsNonNegative(x) ==
  x.kind = "num" /\ ((x.num >= 0 /\ x.den > 0) \/ (x.num <= 0 /\ x.den < 0))

\* C10: for n >= 1 non-negative assets and liabilities with the matrix
\* defined, the built matrix is n x n, has a zero diagonal and no negative
\* entry.
C10_ZeroDiagonalNonNegative ==
  (mpc = "built" /\ NonNegativeInputs /\ MatrixDefined) =>
    LET n == Cardinality(DOMAIN assets)
    IN /\ DOMAIN matrix = Banks(n)
       /\ \A i \in Banks(n) :
            /\ DOMAIN matrix[i] = Banks(n)
            /\ IsZero(matrix[i][i])
            /\ \A j \in Banks(n) : IsNonNegative(matrix[i][j])

\* a built matrix of three banks with a positive off-diagonal entry, where
\* the bank of that row has assets and liabilities of its own
C10_Witness ==
  /\ mpc = "built" /\ NonNegativeInputs /\ MatrixDefined
  /\ Cardinality(DOMAIN assets) = MaxBanks + 1
  /\ \E i, j \in DOMAIN assets :
       i # j /\ matrix[i][j].num > 0 /\ assets[i] > 0 /\ liabilities[i] > 0

\* x and y are the same number (nan equals nothing)
Eq(x, y) ==
  IF x.kind = "num" /\ y.kind = "num" THEN x.num * y.den = y.num * x.den
  ELSE x.kind = y.kind /\ x.kind # "nan"

IsExample ==
  /\ DOMAIN assets = Banks(ExampleRoster.n)
  /\ \A i \in DOMAIN assets :
       assets[i] = ExampleRoster.assets /\ liabilities[i] = ExampleRoster.liabilities

\* C11: with the matrix defined, every entry off the diagonal is
\* liabilities[i] * assets[j] / (sum(assets) - assets[i]); for five banks
\* with assets 100 and liabilities 10 each of them is 2.5.
C11_OffDiagonalFormula ==
  (mpc \in {"built", "derived"} /\ MatrixDefined) =>
    LET n == Cardinality(DOMAIN assets)
    IN \A i, j \in Banks(n) : i # j =>
         /\ matrix[i][j].kind = "num"
         /\ matrix[i][j].num * (SumTo(assets, n) - assets[i])
              = liabilities[i] * assets[j] * matrix[i][j].den
         /\ IsExample => Eq(matrix[i][j], Num(5, 2))

\* the matrix of the five-bank example, built
C11_Witness ==
  /\ mpc = "built" /\ MatrixDefined /\ IsExample
  /\ Eq(matrix[0][4], Num(5, 2))

\* C12 (as claimed): for non-negative inputs a matrix is returned only when
\* every denominator sum(assets) - assets[i] is positive, and no returned
\* entry is inf, undefined or negative.
C12_DegenerateRejected ==
  (mpc \in {"built", "derived"} /\ NonNegativeInputs) =>
    LET n == Cardinality(DOMAIN assets)
    IN /\ \A i \in Banks(n) : SumTo(assets, n) - assets[i] > 0
       /\ \A i, j \in Banks(n) : IsNonNegative(matrix[i][j])

\* C13 (as claimed): with the Traditional matrix defined, the derived
\* matrix is the Traditional one scaled entry by entry by 1 - r.
C13_ScaledByOneMinusR ==
  (mpc = "derived" /\ MatrixDefined) =>
    \A i, j \in DOMAIN assets :
      Eq(bc_exposure[i][j], Times(matrix[i][j], Num(10 - bc_liability_reduction, 10)))

SameCount(results) ==
  Len(results) >= 1 /\ \A k \in 1..Len(results) : results[k].n_failures = results[1].n_failures

\* the summary of k >= 1 records that all count f failures
SummaryOfConstant(results, summary) ==
  LET f == results[1].n_failures
  IN /\ Eq(summary.average_failures, Num(f, 1))
     /\ Eq(summary.median_failures, Num(f, 1))
     /\ summary.max_failures = f
     /\ summary.min_failures = f
     /\ IsZero(summary.std_dev_failures)
     /\ DOMAIN summary.distribution = 0..f
     /\ Eq(summary.distribution[f], Num(100, 1))
     /\ \A i \in 0..f : i # f => IsZero(summary.distribution[i])

\* C17: the summary of k >= 1 records with the same failure count f has
\* mean, median, max and min f, deviation 0 and a distribution with 100 at
\* f and 0 elsewhere.
C17_IdenticalRecords ==
  /\ (trad_summary.kind = "summary" /\ SameCount(trad_results))
       => SummaryOfConstant(trad_results, trad_summary)
  /\ (bc_summary.kind = "summary" /\ SameCount(bc_results))
       => SummaryOfConstant(bc_results, bc_summary)

\* MaxLen records of MaxBanks failures each, summarised
C17_Witness ==
  /\ trad_summary.kind = "summary" /\ SameCount(trad_results)
  /\ Len(trad_results) = MaxLen /\ trad_results[1].n_failures = MaxBanks

Summarised == apc \in {"summarized", "improved", "raised"}

\* summarize_results met an empty list and ended with the exception err,
\* leaving no summary of that list
EmptyRaised(err) ==
  /\ Len(trad_results) = 0 =>
       apc = "raised" /\ analysis_error = err /\ trad_summary.kind = "none"
  /\ (Len(trad_results) > 0 /\ Len(bc_results) = 0) =>
       apc = "raised" /\ analysis_error = err /\ bc_summary.kind = "none"

IsZeroD(d) == d.sign = 0 /\ IsZero(d.square)

\* C19: Cohen's d is 0 whenever the pooled deviation is 0 or undefined and
\* whenever the two sequences are identical, and is never a quotient by a
\* zero pooled deviation.
C19_CohensDZero ==
  statistical_analysis.kind = "analysis" =>
    LET tf == Failures(trad_results)
        bf == Failures(bc_results)
        d == statistical_analysis.cohens_d
    IN /\ ~Greater(PooledVar(tf, bf), Zero) => IsZeroD(d)
       /\ tf = bf => IsZeroD(d)
       /\ d.square.kind = "num"

\* two identical sequences of length 1 (no pooled deviation), analysed
C19_Witness ==
  /\ statistical_analysis.kind = "analysis"
  /\ Len(trad_results) = 1 /\ Failures(trad_results) = Failures(bc_results)
  /\ trad_results[1].n_failures > 0

PctKeys == {"average_failures", "probability_systemic_event", "std_dev_failures"}

\* C20: the improvement of average failures, systemic probability and
\* deviation is (1 - b/a) * 100 when the Traditional value a is positive
\* and 0 when a is 0; that of max failures is the difference a - b.
C20_Improvements ==
  improvements.kind = "improvements" =>
    /\ \A k \in PctKeys :
         LET a == trad_summary[k]
             b == bc_summary[k]
         IN /\ Greater(a, Zero) =>
                 Eq(Times(improvements[k], a), Times(Num(100, 1), Minus(a, b)))
            /\ IsZero(a) => IsZero(improvements[k])
            /\ Greater(a, Zero) \/ IsZero(a)
    /\ improvements.max_failures = trad_summary.max_failures - bc_summary.max_failures

\* improvements where the Traditional deviation is 0 and the Blockchain one
\* is not, and the Traditional average is positive
C20_Witness ==
  /\ improvements.kind = "improvements"
  /\ IsZero(trad_summary.std_dev_failures)
  /\ Greater(bc_summary.std_dev_failures, Zero)
  /\ Greater(trad_summary.average_failures, Zero)
  /\ Greater(bc_summary.average_failures, trad_summary.average_failures)

CallbackRaised(p) ==
  \E k \in 1..Len(callbackLog[p]) : callbackLog[p][k].outcome = "raises"

\* C16 (as claimed): an invocation whose callback raised is not ended by
\* it, and returns the list it returns without a callback.
C16_CallbackFailureHarmless ==
  \A p \in Runs :
    CallbackRaised(p) =>
      /\ pc[p] # "raised"
      /\ pc[p] = "returned" => failures_record[p] = RunAlone(model_type[p])

RangeParams == {"shock_prob", "trad_lgd", "bc_lgd", "bc_liability_reduction"}

\* x is a number strictly between 0 and 1
InUnitInterval(x) ==
  /\ x.t \in {"int", "float", "bool"}
  /\ 0 < Thousandths(x) /\ Thousandths(x) < 1000

\* x is an integer (as Python has it, a bool too) of at least m
IntegerAtLeast(x, m) == IsInstanceInt(x) /\ x.v >= m

InvalidAsClaimed(ps) ==
  \/ \E name \in SeqToSet(RequiredParams) : ps[name].t = "missing"
  \/ \E name \in RangeParams : ~InUnitInterval(ps[name])
  \/ ~IntegerAtLeast(ps.n_sim, MinSim)
  \/ ~IntegerAtLeast(ps.systemic_threshold, 1)

ValidationMessages ==
  {MissingMessage[name] : name \in SeqToSet(RequiredParams)} \cup
  {RangeMessage[name] : name \in RangeParams} \cup
  {"n_sim must be an integer of at least 100",
   "systemic_threshold must be an integer of at least 1"}

\* C14 (as claimed): for a job whose parameters lack a required one or hold
\* a range parameter not in (0,1), an n_sim that is not an integer >= 100
\* or a threshold that is not an integer >= 1, no matrix is ever built, no
\* trial runs and no result is stored, and the task ends with status
\* 'failed' and the message of the validation.
C14_InvalidRejected ==
  (jpc # "none" /\ InvalidAsClaimed(params)) =>
    /\ mpc = "none"
    /\ \A p \in Runs : pc[p] = "idle"
    /\ result.kind = "none"
    /\ jpc = "done" => (status = "failed" /\ error_message \in ValidationMessages)

C15_NoTrialAfterCancel ==
  [][status = "canceled" =>
       \A p \in Runs : ~(pc[p] = "for" /\ pc'[p] = "while")]_vars

\* C30 (as claimed): once cancel_simulation has set the row canceled, no
\* step of the task changes the status or stores a result row (the job has
\* no restart and no parameter update, so every later step is the task's).
C30_CanceledStays ==
  [][status = "canceled" => (status' = "canceled" /\ result' = result)]_vars

\* x is a number and x >= 0
IsNonNegativeNumber(x) == x.kind = "num" /\ Sign(x) >= 0

ValidBank(bank) ==
  /\ \A f \in SeqToSet(NumericFields) : IsNonNegativeNumber(bank[f])
  /\ Sign(Minus(bank.total_assets, bank.interbank_assets)) >= 0

\* a value given in a request that is not a non-negative number
GivenBad(data) ==
  \E f \in SeqToSet(NumericFields) :
    data[f].t # "missing" /\ ~IsNonNegativeNumber(PyFloat(data[f]))

\* the request asks for a bank that breaks the invariant of the table
WouldBreak(table, r) ==
  \/ r.op = "create" /\ (GivenBad(r.data) \/ ExceedsTotal(r.data))
  \/ /\ r.op = "update"
     /\ table[r.name].kind = "bank"
     /\ \/ GivenBad(r.data)
        \/ Greater(Assigned(table[r.name], r.data, "interbank_assets"),
                   Assigned(table[r.name], r.data, "total_assets"))

\* C21 (as claimed): every stored bank has non-negative numbers in its five
\* fields and interbank assets of at most its total assets, and a create or
\* update asking for a bank that breaks this is answered 400 and leaves the
\* table as it was.
C21_BanksValid ==
  /\ [](\A name \in DOMAIN bankStore :
          bankStore[name].kind = "bank" => ValidBank(bankStore[name]))
  /\ [][(request'.op = "none" /\ WouldBreak(bankStore, request)) =>
          (response' = 400 /\ bankStore' = bankStore)]_vars

\* the banks failed at the start of round r, from the rounds recorded
FailedAtStart(fir, r, n) ==
  [j \in Banks(n) |-> \E k \in DOMAIN fir : k < r /\ j \in SeqToSet(fir[k])]

NewlyFailed(fir, r, j) == r \in DOMAIN fir /\ j \in SeqToSet(fir[r])

\* the loss charged in round r of the trial invocation p is in
LossCharged(p, r) ==
  Losses(model_type[p], exposure_matrix, lgd,
         FailedAtStart(failed_in_round[p], r, n_banks), r, n_banks)

\* the regime's capital multiplier, in tenths
CapitalMultiplier(mt) == IF mt = "Blockchain" THEN 11 ELSE 10

RECURSIVE ChargedBefore(_, _, _)
ChargedBefore(p, r, j) ==
  IF r <= 1 THEN 0 ELSE LossCharged(p, r - 1)[j] + ChargedBefore(p, r - 1, j)

\* capital_buffer times the multiplier minus the losses of the earlier rounds
RemainingCapital(p, r, j) ==
  capital_buffer[j] * 100 * CapitalMultiplier(model_type[p]) - ChargedBefore(p, r, j)

\* C22: in every round r of a trial, bank j newly fails iff it was not
\* failed at the start of r and the loss charged to it in r is greater than
\* its remaining capital: its buffer times the regime's multiplier minus
\* the losses of all earlier rounds, deducted from failed banks too.
C22_NewFailureIffLossExceeds ==
  \A p \in Runs : pc[p] \in {"while", "record"} =>
    /\ \A r \in 1..(round_num[p] - 1) : \A j \in Banks(n_banks) :
         NewlyFailed(failed_in_round[p], r, j) <=>
           /\ ~FailedAtStart(failed_in_round[p], r, n_banks)[j]
           /\ LossCharged(p, r)[j] > RemainingCapital(p, r, j)
    /\ \A j \in Banks(n_banks) : capital[p][j] = RemainingCapital(p, round_num[p], j)

\* a bank that fails in round 2 on a loss its whole buffer would have borne,
\* having been charged in round 1
C22_Witness ==
  \E p \in Runs : \E j \in Banks(n_banks) :
    /\ pc[p] = "record"
    /\ NewlyFailed(failed_in_round[p], 2, j)
    /\ LossCharged(p, 1)[j] > 0
    /\ LossCharged(p, 2)[j] <= capital_buffer[j] * 100 * CapitalMultiplier(model_type[p])

\* the contagion multiplier and the panic amplification of round r, in tenths
ContagionMultiplier(mt) == IF mt = "Blockchain" THEN 6 ELSE 10
PanicAmplification(mt, r) == IF mt = "Traditional" /\ r > 1 THEN 10 + r ELSE 10

\* (sum over the failed banks i of M[i][j] * lgd * c) * p, in thousandths
ClaimedLoss(p, j) ==
  SumTo([i \in Banks(n_banks) |->
           IF failed[p][i]
           THEN exposure_matrix[i][j] * lgd * ContagionMultiplier(model_type[p])
           ELSE 0], n_banks)
    * PanicAmplification(model_type[p], round_num[p])

\* C23: a round r charges bank j the sum over the banks i failed at its
\* start of M[i][j] * lgd * c, times p, with c = 0.6 for Blockchain and 1
\* for Traditional, p = 1 + 0.1 * r for Traditional when r > 1 and 1
\* otherwise.
C23_LossFormula ==
  [][\A p \in Runs :
       (pc[p] = "while" /\ round_num'[p] = round_num[p] + 1) =>
         \A j \in Banks(n_banks) : capital[p][j] - capital'[p][j] = ClaimedLoss(p, j)]_vars

\* a Traditional trial past its second round, in which two failed banks
\* both charged a third
C23_Witness ==
  \E p \in Runs : \E j, a, b \in Banks(n_banks) :
    /\ pc[p] \in {"while", "record"} /\ model_type[p] = "Traditional"
    /\ round_num[p] >= 3
    /\ a # b /\ a # j /\ b # j
    /\ FailedAtStart(failed_in_round[p], 2, n_banks)[a]
    /\ FailedAtStart(failed_in_round[p], 2, n_banks)[b]
    /\ exposure_matrix[a][j] * lgd > 0 /\ exposure_matrix[b][j] * lgd > 0

NoDuplicates(q) == \A a, b \in 1..Len(q) : a # b => q[a] # q[b]

\* the round lists of a record partition its failed banks, round 0 is the
\* initial shock of the draws at g, and no later round is empty
RoundsPartition(mt, r, g) ==
  LET fir == r.failed_in_round
  IN /\ 0 \in DOMAIN fir
     /\ fir[0] = NpWhere(InitialShock(mt, shock_prob, n_banks, g.seed, g.pos), n_banks)
     /\ \A a \in DOMAIN fir : NoDuplicates(fir[a])
     /\ \A a, b \in DOMAIN fir : a # b => SeqToSet(fir[a]) \cap SeqToSet(fir[b]) = {}
     /\ UNION {SeqToSet(fir[a]) : a \in DOMAIN fir} = SeqToSet(r.failed_banks)
     /\ \A a \in DOMAIN fir : a >= 1 => fir[a] # <<>>

\* a round adds its key iff some bank newly failed in it, with exactly
\* those banks, and no failed bank leaves the failed set
RoundRecorded(p) ==
  LET r == round_num[p]
      new == {j \in Banks(n_banks) : failed'[p][j] /\ ~failed[p][j]}
  IN /\ (r \in DOMAIN failed_in_round'[p]) <=> (new # {})
     /\ new # {} => SeqToSet(failed_in_round'[p][r]) = new
     /\ \A j \in Banks(n_banks) : failed[p][j] => failed'[p][j]
     /\ \A k \in DOMAIN failed_in_round[p] :
          k \in DOMAIN failed_in_round'[p] /\ failed_in_round'[p][k] = failed_in_round[p][k]

\* C24: in every record the round lists are pairwise disjoint and their
\* union is the failed banks; key 0 is present and holds the banks of the
\* initial shock; a key r >= 1 is present exactly when a bank newly failed
\* in round r, and a failed bank never fails again or recovers.
C24_RoundsPartitionFailures ==
  /\ [](\A p \in Runs : \A k \in 1..Len(failures_record[p]) :
          RoundsPartition(model_type[p], failures_record[p][k], drawLog[p][k]))
  /\ [][\A p \in Runs :
          (pc[p] = "while" /\ round_num'[p] = round_num[p] + 1) => RoundRecorded(p)]_vars

\* a record with failures in the initial shock and in two later rounds
C24_Witness ==
  \E p \in Runs : \E r \in Records(p) :
    /\ {0, 1, 2} \subseteq DOMAIN r.failed_in_round
    /\ r.failed_in_round[0] # <<>>

\* invocation p has set up a trial and not yet run a round of it
AtTrialStart(p) == pc[p] = "while" /\ round_num[p] = 1

\* C25: every trial starts with capital capital_buffer times the regime's
\* multiplier for every bank and with a failed set that is the trial's own
\* initial shock, whatever the earlier trials did; an invocation changes
\* neither the roster's capital buffers nor the exposure matrix.
C25_TrialLocalState ==
  /\ [](\A p \in Runs : AtTrialStart(p) =>
          LET g == drawLog[p][Len(drawLog[p])]
              shock == InitialShock(model_type[p], shock_prob, n_banks, g.seed, g.pos)
          IN /\ capital[p] = [j \in Banks(n_banks) |->
                                capital_buffer[j] * 100 * CapitalMultiplier(model_type[p])]
             /\ failed[p] = shock
             /\ failed_in_round[p] = (0 :> NpWhere(shock, n_banks)))
  /\ [][capital_buffer' = capital_buffer /\ exposure_matrix' = exposure_matrix]_vars

\* the second trial of a run set up after a first trial in which failed
\* banks charged losses, with another initial shock than the first
C25_Witness ==
  \E p \in Runs :
    /\ AtTrialStart(p) /\ sim[p] = 1
    /\ failures_record[p][1].n_failures > 0
    /\ lgd > 0 /\ \A i, j \in Banks(n_banks) : i # j => exposure_matrix[i][j] > 0
    /\ NpWhere(failed[p], n_banks) # failures_record[p][1].failed_banks

\* the trials invocation p has started
TrialsStarted(p) == IF pc[p] \in {"while", "record"} THEN sim[p] + 1 ELSE sim[p]

\* how many of the trial indices 0..k-1 are multiples of 100
MultiplesBelow(k) == (k + 99) \div 100

\* the calls of the callback so far are the ones claimed, in order
CallsAsClaimed(p) ==
  LET log == callbackLog[p]
      heads == MultiplesBelow(TrialsStarted(p))
  IN /\ Len(log) = heads + (IF pc[p] = "returned" THEN 1 ELSE 0)
     /\ \A i \in 1..heads : Eq(log[i].value, Divide((i - 1) * 100, n_sim))
     /\ pc[p] = "returned" => Eq(log[Len(log)].value, Num(1, 1))
     /\ \A i \in 1..Len(log) :
          /\ ~Less(log[i].value, Zero) /\ ~Greater(log[i].value, Num(1, 1))
          /\ \A j \in 1..Len(log) : i < j => ~Greater(log[i].value, log[j].value)

\* C26: with a progress callback, the callback is called before trial k
\* exactly for the k that are multiples of 100, with k / n_sim, and once
\* after the last trial with 1.0; the values of a run never decrease and
\* lie in [0, 1]; no call falls inside a trial.
C26_ProgressCalls ==
  /\ [](progress_callback # "none" => \A p \in Runs : CallsAsClaimed(p))
  /\ [][\A p \in Runs : callbackLog'[p] # callbackLog[p] => pc[p] = "for"]_vars

\* a returned run of 101 trials: calls before trials 0 and 100 and at the end
C26_Witness ==
  \E p \in Runs :
    /\ pc[p] = "returned" /\ n_sim = MinSim + 1
    /\ Len(callbackLog[p]) = 3
    /\ Eq(callbackLog[p][2].value, Num(100, 101))

Min(a, b) == IF a <= b THEN a ELSE b

NonNegativeExposures ==
  \A i, j \in Banks(n_banks) : exposure_matrix[i][j] >= 0

\* the cap ended the loop of invocation p on a round with a new failure
CutOff(p) == pc[p] = "record" /\ round_num[p] > RoundCap /\ still_failing[p]

\* C27: with non-negative buffers and exposures, a round has a new failure
\* only when some bank is failed at its start, a trial runs at most
\* min(n, 10) rounds, and the cap ends a loop that still produces failures
\* only on a roster of at least 11 banks.
C27_RoundsBounded ==
  (NonNegativeBuffers /\ NonNegativeExposures) =>
    \A p \in Runs : pc[p] \in {"while", "record"} =>
      /\ round_num[p] - 1 <= Min(n_banks, RoundCap)
      /\ \A r \in DOMAIN failed_in_round[p] :
           r >= 1 => NpAny(FailedAtStart(failed_in_round[p], r, n_banks), n_banks)
      /\ CutOff(p) => n_banks >= RoundCap + 1

\* a trial of the ring cut off by the cap after ten rounds, each with a
\* new failure
C27_Witness ==
  /\ NonNegativeBuffers /\ NonNegativeExposures
  /\ \E p \in Runs :
       /\ CutOff(p) /\ n_banks = RingBanks
       /\ \A r \in 1..RoundCap : r \in DOMAIN failed_in_round[p]

\* C28: on the same draws, roster, matrix, lgd, shock_prob and regime, the
\* loop of stream.py runs as many rounds as the loop of monte_carlo_sim
\* (service and src/simulation.py) and ends with the same failed banks and
\* the same failure count, in every trial.
C28_LoopsEquivalent ==
  \A p \in Runs : pc[p] = "record" =>
    LET g == drawLog[p][Len(drawLog[p])]
        s == StreamTrial(model_type[p], exposure_matrix, lgd, shock_prob,
                         capital_buffer, n_banks, g.seed, g.pos)
    IN /\ s.round_num = round_num[p]
       /\ s.failed = failed[p]
       /\ s.total_banks_failed = NpSum(failed[p], n_banks)

\* a trial that both loops end by their round limit, and not for want of
\* a new failure
C28_Witness ==
  \E p \in Runs :
    /\ pc[p] = "record" /\ still_failing[p]
    /\ round_num[p] = StreamMaxRounds + 1
    /\ NpSum(failed[p], n_banks) = RoundCap + 1

====
